---- MODULE Spec2Model ----
(***************************************************************************)
(* Model of the Unfold JSON viewer core: the tree arena (parser/tree.rs),  *)
(* the tree builder (parser/builder.rs), the row flattener, the search     *)
(* engine and the search navigation of App::update (main.rs).              *)
(*                                                                         *)
(* Conventions.                                                            *)
(*  - A Rust String is a sequence of one-character strings, so that        *)
(*    substring search, case folding and path building are computed.       *)
(*  - Option<T> is a sequence of length 0 (None) or 1 (Some(x)).           *)
(*  - Node indices are the program's 0-based usize values; node i of a     *)
(*    tree t is t.nodes[i + 1].                                            *)
(*  - f32 pixel quantities are integers; the viewport heights used are     *)
(*    even, so that viewport_height / 2.0 is exact.                        *)
(*  - The box-drawing glyphs of the tree lines are written in ASCII:       *)
(*    "+" for the tee, "^" for the corner, "|" for the vertical bar.       *)
(***************************************************************************)
EXTENDS Integers, Sequences, FiniteSets, TLC

VARIABLES
    tree,                  \* App.tree: Option<JsonTree>
    flat_rows,             \* App.flat_rows: Vec<FlatRow>
    viewport_height,       \* App.viewport_height
    scroll_offset,         \* App.scroll_offset
    search_query,          \* App.search_query
    search_results,        \* App.search_results: Vec<usize>
    search_result_index,   \* App.search_result_index: Option<usize>
    search_matches,        \* App.search_matches: HashSet<usize>
    search_case_sensitive, \* App.search_case_sensitive
    search_use_regex,      \* App.search_use_regex
    search_regex_error,    \* App.search_regex_error: Option<String>
    selected_node,         \* App.selected_node: Option<usize>
    parse_error,           \* App.parse_error: Option<ParseError>
    last_msg,              \* the Message handled by the last App::update
    task                   \* the Task returned by the last App::update

vars == <<tree, flat_rows, viewport_height, scroll_offset, search_query,
          search_results, search_result_index, search_matches,
          search_case_sensitive, search_use_regex, search_regex_error,
          selected_node, parse_error, last_msg, task>>

(***************************************************************************)
(* Bounds of the model and program constants.                              *)
(***************************************************************************)
\* documents 1..NumDocs of the catalogue Doc(_) can be loaded
NumDocs == 2
\* queries 1..NumQueries of the catalogue Query(_) can be typed
NumQueries == 2

\* documents 1..NumTreeDocs of the catalogue can be given to build_tree
\* when the tree store is driven directly
NumTreeDocs == 7
\* documents 1..NumTextDocs of the catalogue TextDoc(_) can be serialized
NumTextDocs == 6
\* documents 1..NumSearchDocs and queries 1..NumSearchQueries of the
\* catalogues SearchDoc(_) and SearchQuery(_) are given to search_nodes
NumSearchDocs == 3
NumSearchQueries == 6
\* the longest flat document of the view specification has MaxRows rows
MaxRows == 16

ROW_HEIGHT == 16
BUFFER_ROWS == 5

None == <<>>
Some(x) == <<x>>

(***************************************************************************)
(* Strings.                                                                *)
(***************************************************************************)
UpperChars == <<"A","B","C","D","E","F","G","H","I","J","K","L","M",
                "N","O","P","Q","R","S","T","U","V","W","X","Y","Z">>
LowerChars == <<"a","b","c","d","e","f","g","h","i","j","k","l","m",
                "n","o","p","q","r","s","t","u","v","w","x","y","z">>

\* the lower-case letter of each upper-case ASCII letter
ToLower ==
    [c \in {UpperChars[i] : i \in 1..26} |->
        LowerChars[CHOOSE i \in 1..26 : UpperChars[i] = c]]

\* Letters outside ASCII are written by name, one name per character: the
\* Greek capital alpha and sigma, the small alpha and sigma and the small
\* final sigma.
GreekChars == {"ALPHA", "SIGMA", "alpha", "sigma", "final_sigma"}

\* char::to_lowercase on the ASCII letters and the Greek capitals
LowerChar(c) ==
    IF c \in DOMAIN ToLower THEN ToLower[c]
    ELSE IF c = "ALPHA" THEN "alpha"
    ELSE IF c = "SIGMA" THEN "sigma"
    ELSE c

\* the characters with the Cased property
Cased(c) ==
    \/ c \in GreekChars
    \/ \E i \in 1..26 : c = UpperChars[i] \/ c = LowerChars[i]

\* the characters with the Case_Ignorable property
CaseIgnorable(c) == c \in {".", ":", "^"}

RECURSIVE case_ignorable_then_cased(_, _, _)
\* from position i of s in direction step: case-ignorable characters, then
\* a cased one
case_ignorable_then_cased(s, i, step) ==
    IF i < 1 \/ i > Len(s) THEN FALSE
    ELSE IF CaseIgnorable(s[i]) THEN case_ignorable_then_cased(s, i + step, step)
    ELSE Cased(s[i])

\* map_uppercase_sigma: the capital sigma at position i is lowered to the
\* final sigma at the end of a word and to the small sigma elsewhere
map_uppercase_sigma(s, i) ==
    IF case_ignorable_then_cased(s, i - 1, -1)
         /\ ~ case_ignorable_then_cased(s, i + 1, 1)
    THEN "final_sigma" ELSE "sigma"

\* str::to_lowercase lowering every character by itself
to_lowercase_charwise(s) == [i \in 1..Len(s) |-> LowerChar(s[i])]

\* str::to_lowercase
to_lowercase(s) ==
    [i \in 1..Len(s) |->
        IF s[i] = "SIGMA" THEN map_uppercase_sigma(s, i) ELSE LowerChar(s[i])]

\* str::contains(&str)
contains(text, pat) ==
    \E i \in 0..(Len(text) - Len(pat)) : SubSeq(text, i + 1, i + Len(pat)) = pat

Digits == <<"0","1","2","3","4","5","6","7","8","9">>

RECURSIVE usize_to_string(_)
\* Display of a non-negative integer (usize, or an integral f64)
usize_to_string(n) ==
    IF n < 10 THEN <<Digits[n + 1]>>
    ELSE usize_to_string(n \div 10) \o <<Digits[(n % 10) + 1]>>

\* bool::to_string
bool_to_string(b) == IF b THEN <<"t","r","u","e">> ELSE <<"f","a","l","s","e">>

NullText == <<"n","u","l","l">>

(***************************************************************************)
(* Regex::new and Regex::is_match on the fragment the queries use:         *)
(* literal characters, the wildcard ".", an optional leading "(?i)" flag   *)
(* group, and "[" opening a character class.  No query contains "]", so a  *)
(* "[" is always an unclosed class and the pattern does not compile.       *)
(***************************************************************************)
CaseFlag == <<"(","?","i",")">>

HasUnclosedClass(body) ==
    \E i \in 1..Len(body) :
        /\ body[i] = "["
        /\ ~ \E j \in (i + 1)..Len(body) : body[j] = "]"

RegexNew(pattern) ==
    LET ci   == Len(pattern) >= 4 /\ SubSeq(pattern, 1, 4) = CaseFlag
        body == IF ci THEN SubSeq(pattern, 5, Len(pattern)) ELSE pattern
    IN  [ok |-> ~ HasUnclosedClass(body), ci |-> ci, body |-> body]

\* simple case folding, which the (?i) flag compares by: the small and the
\* final sigma fold together
FoldChar(c) == IF c = "final_sigma" THEN "sigma" ELSE LowerChar(c)

CharMatch(p, c, ci) ==
    \/ p = "."
    \/ IF ci THEN FoldChar(p) = FoldChar(c) ELSE p = c

is_match(re, text) ==
    \E i \in 0..(Len(text) - Len(re.body)) :
        \A j \in 1..Len(re.body) : CharMatch(re.body[j], text[i + j], re.ci)

RegexErrorText == "Invalid regex: unclosed character class"

(***************************************************************************)
(* serde_json::Value, the input of build_tree.  An object lists its        *)
(* members in the order obj.iter() yields them.                            *)
(***************************************************************************)
VNull      == [kind |-> "Null",   s |-> <<>>, n |-> 0, b |-> FALSE, items |-> <<>>]
VBool(b)   == [kind |-> "Bool",   s |-> <<>>, n |-> 0, b |-> b,     items |-> <<>>]
VNumber(n) == [kind |-> "Number", s |-> <<>>, n |-> n, b |-> FALSE, items |-> <<>>]
VString(s) == [kind |-> "String", s |-> s,    n |-> 0, b |-> FALSE, items |-> <<>>]
VArray(vs) == [kind |-> "Array",  s |-> <<>>, n |-> 0, b |-> FALSE,
               items |-> [i \in 1..Len(vs) |-> [k |-> <<>>, v |-> vs[i]]]]
VObject(m) == [kind |-> "Object", s |-> <<>>, n |-> 0, b |-> FALSE, items |-> m]
Member(k, v) == [k |-> k, v |-> v]

(***************************************************************************)
(* JsonValue and JsonNode (parser/node.rs).                                *)
(***************************************************************************)
JsonValue(kind, s, n, b) == [kind |-> kind, s |-> s, n |-> n, b |-> b]

JsonNode(key, value, depth, children, expanded) ==
    [key |-> key, value |-> value, depth |-> depth, children |-> children,
     expanded |-> expanded]

\* JsonNode::is_expandable: the node is a container
is_expandable(node) == node.value.kind \in {"Array", "Object"}

(***************************************************************************)
(* JsonTree (parser/tree.rs).                                              *)
(***************************************************************************)
JsonTree_new == [nodes |-> <<>>, root_index |-> 0]

add_node(t, node) ==
    [tree |-> [t EXCEPT !.nodes = Append(@, node)], index |-> Len(t.nodes)]

set_root(t, index) == [t EXCEPT !.root_index = index]

node_count(t) == Len(t.nodes)

get_node(t, index) ==
    IF index \in 0..(Len(t.nodes) - 1) THEN Some(t.nodes[index + 1]) ELSE None

root_index(t) == t.root_index

\* toggle_expanded emptying the child list of the node it collapses
toggle_expanded_drops_children(t, index) ==
    IF get_node(t, index) # None /\ is_expandable(t.nodes[index + 1])
    THEN [t EXCEPT !.nodes[index + 1].expanded = ~ @,
                   !.nodes[index + 1].children =
                        IF t.nodes[index + 1].expanded THEN <<>> ELSE @]
    ELSE t

\* toggle_expanded without the test that the node is a container
toggle_expanded_any_node(t, index) ==
    IF get_node(t, index) # None
    THEN [t EXCEPT !.nodes[index + 1].expanded = ~ @]
    ELSE t

\* toggle_expanded setting the flag instead of flipping it
toggle_expanded_sets(t, index) ==
    IF get_node(t, index) # None /\ is_expandable(t.nodes[index + 1])
    THEN [t EXCEPT !.nodes[index + 1].expanded = TRUE]
    ELSE t

toggle_expanded(t, index) ==
    IF get_node(t, index) # None /\ is_expandable(t.nodes[index + 1])
    THEN [t EXCEPT !.nodes[index + 1].expanded = ~ @]
    ELSE t

\* JsonTree::set_expanded: explicit set, same container-only guard
set_expanded(t, index, expanded) ==
    IF get_node(t, index) # None /\ is_expandable(t.nodes[index + 1])
    THEN [t EXCEPT !.nodes[index + 1].expanded = expanded]
    ELSE t

RECURSIVE find_path(_, _, _, _)
\* The downward search of get_path_to_node: the path from current to
\* target below path, or None when target is not in that subtree.
find_path(t, current, target, path) ==
    LET here == Append(path, current)
        kids == IF get_node(t, current) = None THEN <<>>
                ELSE t.nodes[current + 1].children
        hits == {i \in 1..Len(kids) : find_path(t, kids[i], target, here) # None}
    IN  IF current = target THEN Some(here)
        ELSE IF hits = {} THEN None
        ELSE find_path(t, kids[CHOOSE i \in hits : \A j \in hits : i <= j],
                       target, here)

\* JsonTree::get_path_to_node: root .. target, empty when target is absent
get_path_to_node(t, target) ==
    LET r == find_path(t, t.root_index, target, <<>>)
    IN  IF get_node(t, target) = None \/ r = None THEN <<>> ELSE r[1]

(***************************************************************************)
(* build_tree and build_node (parser/builder.rs).                          *)
(***************************************************************************)
\* the (key, value) pairs build_node collects for a value's children
child_values(value) ==
    IF value.kind = "Array"
    THEN [i \in 1..Len(value.items) |->
            [k |-> Some(<<"[">> \o usize_to_string(i - 1) \o <<"]">>),
             v |-> value.items[i].v]]
    ELSE IF value.kind = "Object"
    THEN [i \in 1..Len(value.items) |->
            [k |-> Some(value.items[i].k), v |-> value.items[i].v]]
    ELSE <<>>

RECURSIVE build_node(_, _, _, _)
RECURSIVE build_children(_, _, _, _, _)

\* build_children building the first child only
build_children_first_only(t, cvs, i, depth, indices) ==
    IF i > Len(cvs) \/ i > 1 THEN [tree |-> t, indices |-> indices]
    ELSE LET r == build_node(t, cvs[i].k, cvs[i].v, depth)
         IN  build_children(r.tree, cvs, i + 1, depth, Append(indices, r.index))

\* the map over child_values: builds children i..Len(cvs) in order
build_children(t, cvs, i, depth, indices) ==
    IF i > Len(cvs) THEN [tree |-> t, indices |-> indices]
    ELSE LET r == build_node(t, cvs[i].k, cvs[i].v, depth)
         IN  build_children(r.tree, cvs, i + 1, depth, Append(indices, r.index))

\* build_node creating the root expanded
build_node_root_expanded(t, key, value, depth) ==
    LET node_value == JsonValue(value.kind, value.s, value.n, value.b)
        built      == build_children(t, child_values(value), 1, depth + 1, <<>>)
        node       == JsonNode(key, node_value, depth, built.indices, depth = 0)
    IN  add_node(built.tree, node)

\* build_node giving the children the depth of their parent
build_node_same_depth(t, key, value, depth) ==
    LET node_value == JsonValue(value.kind, value.s, value.n, value.b)
        built      == build_children(t, child_values(value), 1, depth, <<>>)
        node       == JsonNode(key, node_value, depth, built.indices, FALSE)
    IN  add_node(built.tree, node)

build_node(t, key, value, depth) ==
    LET node_value == JsonValue(value.kind, value.s, value.n, value.b)
        built      == build_children(t, child_values(value), 1, depth + 1, <<>>)
        node       == JsonNode(key, node_value, depth, built.indices, FALSE)
    IN  add_node(built.tree, node)

build_tree(json) ==
    LET r == build_node(JsonTree_new, None, json, 0)
    IN  set_root(r.tree, r.index)

(***************************************************************************)
(* The row flattener (main.rs, App::flatten_visible_nodes, flatten_node).  *)
(***************************************************************************)
FlatRow(node_index, prefix, key, display, type, expandable, expanded, row_index, path) ==
    [node_index |-> node_index, prefix |-> prefix, key |-> key,
     value_display |-> display, value_type |-> type,
     is_expandable |-> expandable, is_expanded |-> expanded,
     row_index |-> row_index, path |-> path]

\* the (value_display, value_type) pair of a node
value_display_of(node) ==
    LET v == node.value
    IN  CASE v.kind = "Null"   -> [display |-> NullText, type |-> "Null"]
          [] v.kind = "Bool"   -> [display |-> bool_to_string(v.b), type |-> "Bool"]
          [] v.kind = "Number" -> [display |-> usize_to_string(v.n), type |-> "Number"]
          [] v.kind = "String" -> [display |-> <<"\"">> \o v.s \o <<"\"">>,
                                   type |-> "String"]
          [] v.kind = "Array"  ->
                IF node.expanded THEN [display |-> <<":">>, type |-> "Bracket"]
                ELSE [display |-> <<"[",".",".",".","]">>, type |-> "Key"]
          [] v.kind = "Object" ->
                IF node.expanded THEN [display |-> <<":">>, type |-> "Bracket"]
                ELSE [display |-> <<"{",".",".",".","}">>, type |-> "Key"]

\* the (current_prefix, child_prefix) pair of a row
prefix_of(node, prefix, is_last, is_root) ==
    LET connector == IF is_last THEN <<"^">> ELSE <<"+">>
        below     == IF is_last THEN <<" "," "," ">> ELSE <<"|"," "," ">>
    IN  IF is_root THEN [current |-> <<>>, child |-> <<>>]
        ELSE IF node.depth = 1 THEN [current |-> connector, child |-> below]
        ELSE [current |-> prefix \o connector, child |-> prefix \o below]

\* the path of child i (0-based) of a node whose path is current_path
child_path_of(t, node, i, current_path) ==
    LET child_index == node.children[i + 1]
        child       == get_node(t, child_index)
        key         == IF child # None /\ child[1].key # None
                       THEN child[1].key[1] ELSE <<>>
    IN  IF node.value.kind = "Array"
        THEN current_path \o <<"[">> \o usize_to_string(i) \o <<"]">>
        ELSE IF child # None
        THEN IF current_path = <<>> THEN key
             ELSE current_path \o <<".">> \o key
        ELSE current_path

RECURSIVE flatten_node(_, _, _, _, _, _, _)
RECURSIVE flatten_children(_, _, _, _, _, _)

\* the loop of flatten_node over node.children, from child i (0-based)
flatten_children(t, node, i, rows, child_prefix, current_path) ==
    IF i >= Len(node.children) THEN rows
    ELSE flatten_children(t, node, i + 1,
            flatten_node(t, node.children[i + 1], rows, child_prefix,
                         i = Len(node.children) - 1, FALSE,
                         child_path_of(t, node, i, current_path)),
            child_prefix, current_path)

\* flatten_node descending into the children of collapsed nodes too
flatten_node_all(t, index, rows, prefix, is_last, is_root, current_path) ==
    IF get_node(t, index) = None THEN rows
    ELSE LET node == t.nodes[index + 1]
             pf   == prefix_of(node, prefix, is_last, is_root)
             vd   == value_display_of(node)
             row  == FlatRow(index, pf.current, node.key, vd.display, vd.type,
                             is_expandable(node), node.expanded, Len(rows),
                             current_path)
         IN  flatten_children(t, node, 0, Append(rows, row), pf.child,
                              current_path)

\* flatten_node pushing the row of a node after the rows of its children
flatten_node_children_first(t, index, rows, prefix, is_last, is_root, current_path) ==
    IF get_node(t, index) = None THEN rows
    ELSE LET node  == t.nodes[index + 1]
             pf    == prefix_of(node, prefix, is_last, is_root)
             vd    == value_display_of(node)
             below == IF node.expanded
                      THEN flatten_children(t, node, 0, rows, pf.child, current_path)
                      ELSE rows
             row   == FlatRow(index, pf.current, node.key, vd.display, vd.type,
                              is_expandable(node), node.expanded, Len(below),
                              current_path)
         IN  Append(below, row)

flatten_node(t, index, rows, prefix, is_last, is_root, current_path) ==
    IF get_node(t, index) = None THEN rows
    ELSE LET node == t.nodes[index + 1]
             pf   == prefix_of(node, prefix, is_last, is_root)
             vd   == value_display_of(node)
             row  == FlatRow(index, pf.current, node.key, vd.display, vd.type,
                             is_expandable(node), node.expanded, Len(rows),
                             current_path)
             pushed == Append(rows, row)
         IN  IF node.expanded
             THEN flatten_children(t, node, 0, pushed, pf.child, current_path)
             ELSE pushed

\* the initial path segment flatten_visible_nodes gives child i of the root
root_child_path(t, root, i) ==
    LET child == get_node(t, root.children[i + 1])
    IN  IF root.value.kind = "Array"
        THEN <<"[">> \o usize_to_string(i) \o <<"]">>
        ELSE IF child # None
        THEN IF child[1].key # None THEN child[1].key[1] ELSE <<>>
        ELSE <<>>

RECURSIVE flatten_root_children(_, _, _, _)
\* the loop of flatten_visible_nodes over root.children, from child i
flatten_root_children(t, root, i, rows) ==
    IF i >= Len(root.children) THEN rows
    ELSE flatten_root_children(t, root, i + 1,
            flatten_node(t, root.children[i + 1], rows, <<>>,
                         i = Len(root.children) - 1, FALSE,
                         root_child_path(t, root, i)))

\* flatten_visible_nodes starting at the root itself
flatten_visible_nodes_from_root(t) ==
    IF get_node(t, root_index(t)) = None THEN <<>>
    ELSE flatten_node(t, root_index(t), <<>>, <<>>, TRUE, TRUE, <<>>)

flatten_visible_nodes(t) ==
    IF get_node(t, root_index(t)) = None THEN <<>>
    ELSE flatten_root_children(t, t.nodes[root_index(t) + 1], 0, <<>>)

(***************************************************************************)
(* The search engine (search.rs / main.rs, search_nodes).                  *)
(***************************************************************************)
\* the matches closure of search_nodes
matches(re, query, case_sensitive, text) ==
    IF re # None THEN is_match(re[1], text)
    ELSE IF case_sensitive THEN contains(text, query)
    ELSE contains(to_lowercase(text), to_lowercase(query))

\* node_matches letting a container match through its collapsed preview
node_matches_preview(node, re, query, case_sensitive) ==
    \/ node.key # None /\ matches(re, query, case_sensitive, node.key[1])
    \/ matches(re, query, case_sensitive, value_display_of(node).display)

\* node_matches without the test of the key
node_matches_value_only(node, re, query, case_sensitive) ==
    CASE node.value.kind = "String" ->
            matches(re, query, case_sensitive, node.value.s)
      [] node.value.kind = "Number" ->
            matches(re, query, case_sensitive, usize_to_string(node.value.n))
      [] node.value.kind = "Bool" ->
            matches(re, query, case_sensitive, bool_to_string(node.value.b))
      [] node.value.kind = "Null" ->
            matches(re, query, case_sensitive, NullText)
      [] OTHER -> FALSE

\* does node i go into the results: key first, then the text of the scalar
node_matches(node, re, query, case_sensitive) ==
    \/ node.key # None /\ matches(re, query, case_sensitive, node.key[1])
    \/ CASE node.value.kind = "String" ->
                matches(re, query, case_sensitive, node.value.s)
         [] node.value.kind = "Number" ->
                matches(re, query, case_sensitive, usize_to_string(node.value.n))
         [] node.value.kind = "Bool" ->
                matches(re, query, case_sensitive, bool_to_string(node.value.b))
         [] node.value.kind = "Null" ->
                matches(re, query, case_sensitive, NullText)
         [] OTHER -> FALSE

RECURSIVE search_loop(_, _, _, _, _, _)

\* search_loop putting each new match in front of the earlier ones
search_loop_front(t, i, re, query, case_sensitive, results) ==
    IF i >= node_count(t) THEN results
    ELSE search_loop(t, i + 1, re, query, case_sensitive,
            IF node_matches(t.nodes[i + 1], re, query, case_sensitive)
            THEN <<i>> \o results ELSE results)

\* search_loop without the continue after a key match: the index is pushed
\* for the key and again for the value
search_loop_key_and_value(t, i, re, query, case_sensitive, results) ==
    IF i >= node_count(t) THEN results
    ELSE LET node    == t.nodes[i + 1]
             by_key  == node.key # None
                          /\ matches(re, query, case_sensitive, node.key[1])
             by_both == by_key
                          /\ node_matches(JsonNode(None, node.value, node.depth,
                                                   node.children, node.expanded),
                                          re, query, case_sensitive)
         IN  search_loop(t, i + 1, re, query, case_sensitive,
                results
                \o (IF node_matches(node, re, query, case_sensitive)
                    THEN <<i>> ELSE <<>>)
                \o (IF by_both THEN <<i>> ELSE <<>>))

\* the loop over i in 0..tree.node_count()
search_loop(t, i, re, query, case_sensitive, results) ==
    IF i >= node_count(t) THEN results
    ELSE search_loop(t, i + 1, re, query, case_sensitive,
            IF node_matches(t.nodes[i + 1], re, query, case_sensitive)
            THEN Append(results, i) ELSE results)

\* search_nodes falling back to the plain search when the pattern is bad
search_nodes_fallback(t, query, case_sensitive, use_regex) ==
    LET pattern  == IF case_sensitive THEN query ELSE CaseFlag \o query
        compiled == RegexNew(pattern)
    IN  IF query = <<>> THEN [results |-> <<>>, error |-> None]
        ELSE IF use_regex /\ ~ compiled.ok
        THEN [results |-> search_loop(t, 0, None, query, case_sensitive, <<>>),
              error |-> Some(RegexErrorText)]
        ELSE [results |-> search_loop(t, 0,
                             IF use_regex THEN Some(compiled) ELSE None,
                             query, case_sensitive, <<>>),
              error |-> None]

\* search_nodes dropping the error of a pattern that does not compile
search_nodes_silent(t, query, case_sensitive, use_regex) ==
    LET pattern  == IF case_sensitive THEN query ELSE CaseFlag \o query
        compiled == RegexNew(pattern)
    IN  IF query = <<>> \/ (use_regex /\ ~ compiled.ok)
        THEN [results |-> <<>>, error |-> None]
        ELSE [results |-> search_loop(t, 0,
                             IF use_regex THEN Some(compiled) ELSE None,
                             query, case_sensitive, <<>>),
              error |-> None]

search_nodes(t, query, case_sensitive, use_regex) ==
    LET pattern  == IF case_sensitive THEN query ELSE CaseFlag \o query
        compiled == RegexNew(pattern)
    IN  IF query = <<>> THEN [results |-> <<>>, error |-> None]
        ELSE IF use_regex /\ ~ compiled.ok
        THEN [results |-> <<>>, error |-> Some(RegexErrorText)]
        ELSE [results |-> search_loop(t, 0,
                             IF use_regex THEN Some(compiled) ELSE None,
                             query, case_sensitive, <<>>),
              error |-> None]

(***************************************************************************)
(* Reveal, recursive expand/collapse and scrolling (main.rs).              *)
(***************************************************************************)
NoTask == [kind |-> "none", y |-> 0]
ScrollTo(y) == [kind |-> "scroll_to", y |-> y]
ResizeTask == [kind |-> "resize", y |-> 0]

RECURSIVE set_expanded_recursive(_, _, _)
RECURSIVE set_expanded_children(_, _, _, _)

\* the loop of set_expanded_recursive over the cloned child list
set_expanded_children(t, children, i, expanded) ==
    IF i > Len(children) THEN t
    ELSE set_expanded_children(
            set_expanded_recursive(t, children[i], expanded),
            children, i + 1, expanded)

\* set_expanded_recursive without the loop over the children
set_expanded_recursive_node_only(t, node_index, expanded) ==
    set_expanded(t, node_index, expanded)

set_expanded_recursive(t, node_index, expanded) ==
    LET t1 == set_expanded(t, node_index, expanded)
    IN  IF get_node(t1, node_index) = None THEN t1
        ELSE set_expanded_children(t1, t1.nodes[node_index + 1].children, 1,
                                   expanded)

RECURSIVE expand_path(_, _, _, _)

\* expand_path without the test that spares the target itself
expand_path_with_target(t, path, i, target_index) ==
    IF i > Len(path) THEN t
    ELSE expand_path(set_expanded(t, path[i], TRUE), path, i + 1, target_index)

\* expand_path opening the whole subtree of each ancestor
expand_path_recursive(t, path, i, target_index) ==
    IF i > Len(path) THEN t
    ELSE expand_path(IF path[i] # target_index
                     THEN set_expanded_recursive(t, path[i], TRUE) ELSE t,
                     path, i + 1, target_index)

\* the loop of expand_to_node over the path, from position i (1-based)
expand_path(t, path, i, target_index) ==
    IF i > Len(path) THEN t
    ELSE expand_path(IF path[i] # target_index
                     THEN set_expanded(t, path[i], TRUE) ELSE t,
                     path, i + 1, target_index)

\* expand_to_node opening only the parent of the target
expand_to_node_parent_only(topt, target_index) ==
    IF topt = None THEN None
    ELSE LET path == get_path_to_node(topt[1], target_index)
         IN  IF Len(path) < 2 THEN topt
             ELSE Some(set_expanded(topt[1], path[Len(path) - 1], TRUE))

\* App::expand_to_node on self.tree (an Option)
expand_to_node(topt, target_index) ==
    IF topt = None THEN None
    ELSE Some(expand_path(topt[1], get_path_to_node(topt[1], target_index), 1,
                          target_index))

\* flat_rows.iter().position(|r| r.node_index == target_index)
row_position(rows, target_index) ==
    LET hits == {i \in 1..Len(rows) : rows[i].node_index = target_index}
    IN  IF hits = {} THEN None
        ELSE Some((CHOOSE i \in hits : \A j \in hits : i <= j) - 1)

Max(a, b) == IF a >= b THEN a ELSE b

\* scroll_to_node without the clamp at the top of the content
scroll_to_node_unclamped(rows, vh, target_index) ==
    LET pos == row_position(rows, target_index)
    IN  IF pos = None THEN NoTask
        ELSE ScrollTo((pos[1] * ROW_HEIGHT) - (vh \div 2))

\* App::scroll_to_node: the Task it returns
scroll_to_node(rows, vh, target_index) ==
    LET pos == row_position(rows, target_index)
    IN  IF pos = None THEN NoTask
        ELSE ScrollTo(Max((pos[1] * ROW_HEIGHT) - (vh \div 2), 0))

(***************************************************************************)
(* The virtual window of App::view (main.rs).  Lengths in pixels are whole *)
(* numbers here; row counts are usize.                                     *)
(***************************************************************************)
Min(a, b) == IF a <= b THEN a ELSE b

\* usize::saturating_sub
saturating_sub(a, b) == IF a >= b THEN a - b ELSE 0

\* (x / ROW_HEIGHT).floor() as usize, x >= 0
floor_rows(x) == x \div ROW_HEIGHT

\* (x / ROW_HEIGHT).ceil() as usize, x >= 0
ceil_rows(x) == (x + ROW_HEIGHT - 1) \div ROW_HEIGHT

first_visible(offset) == floor_rows(offset)

visible_count(vh) == ceil_rows(vh) + 1

\* the start of the window without the saturation
window_start_unsaturated(offset) == first_visible(offset) - BUFFER_ROWS

window_start(offset) == saturating_sub(first_visible(offset), BUFFER_ROWS)

window_end(total_rows, offset, vh) ==
    Min(first_visible(offset) + visible_count(vh) + BUFFER_ROWS, total_rows)

\* a - b on usize: the difference when a >= b; otherwise the subtraction
\* overflows, which panics in a build with overflow checks and wraps to
\* 2^64 - (b - a) in a build without them
usize_sub(a, b) ==
    IF a >= b THEN {[kind |-> "value", v |-> a - b]}
    ELSE {[kind |-> "panic", v |-> 0], [kind |-> "wrapped", v |-> b - a]}

\* the count view passes to take(): end - start
window_take(total_rows, offset, vh) ==
    usize_sub(window_end(total_rows, offset, vh), window_start(offset))

\* Vec<usize> -> HashSet<usize>
to_set(seq) == {seq[i] : i \in 1..Len(seq)}

(***************************************************************************)
(* Serialization of a subtree for copy and export (json_export.rs).        *)
(***************************************************************************)
RECURSIVE replace(_, _, _)
\* str::replace(from, to) for a pattern of one character
replace(s, from, to) ==
    IF s = <<>> THEN <<>>
    ELSE (IF Head(s) = from THEN to ELSE <<Head(s)>>) \o replace(Tail(s), from, to)

\* escape_json_string, the five replacements in the order of the code
escape_json_string(s) ==
    replace(replace(replace(replace(replace(s,
        "\\", <<"\\","\\">>),
        "\"", <<"\\","\"">>),
        "\n", <<"\\","n">>),
        "\r", <<"\\","r">>),
        "\t", <<"\\","t">>)

RECURSIVE join(_, _)
\* [String]::join(sep)
join(items, sep) ==
    IF items = <<>> THEN <<>>
    ELSE IF Len(items) = 1 THEN items[1]
    ELSE items[1] \o sep \o join(Tail(items), sep)

RECURSIVE node_to_json_string_internal(_, _, _)
node_to_json_string_internal(t, node_index, minified) ==
    LET sep    == IF minified THEN <<",">> ELSE <<","," ">>
        kv_sep == IF minified THEN <<":">> ELSE <<":"," ">>
    IN  IF get_node(t, node_index) = None THEN <<>>
        ELSE LET node == t.nodes[node_index + 1]
                 kind == node.value.kind
                 kids == SelectSeq(node.children, LAMBDA c : get_node(t, c) # None)
             IN  IF kind = "Null" THEN NullText
                 ELSE IF kind = "Bool" THEN bool_to_string(node.value.b)
                 ELSE IF kind = "Number" THEN usize_to_string(node.value.n)
                 ELSE IF kind = "String"
                 THEN <<"\"">> \o escape_json_string(node.value.s) \o <<"\"">>
                 ELSE IF kind = "Array"
                 THEN <<"[">>
                      \o join([i \in 1..Len(node.children) |->
                                 node_to_json_string_internal(t, node.children[i], minified)],
                              sep)
                      \o <<"]">>
                 ELSE <<"{">>
                      \o join([i \in 1..Len(kids) |->
                                 <<"\"">>
                                 \o (IF t.nodes[kids[i] + 1].key = None THEN <<>>
                                     ELSE t.nodes[kids[i] + 1].key[1])
                                 \o <<"\"">> \o kv_sep
                                 \o node_to_json_string_internal(t, kids[i], minified)],
                              sep)
                      \o <<"}">>

node_to_json_string(t, node_index) ==
    node_to_json_string_internal(t, node_index, FALSE)

\* node_to_json_string_minified with the separators of the spaced form
node_to_json_string_minified_spaced(t, node_index) ==
    node_to_json_string_internal(t, node_index, FALSE)

node_to_json_string_minified(t, node_index) ==
    node_to_json_string_internal(t, node_index, TRUE)

format_node_value_for_copy(t, node_index) ==
    IF get_node(t, node_index) = None THEN <<>>
    ELSE LET node == t.nodes[node_index + 1]
             kind == node.value.kind
         IN  IF kind = "Null" THEN NullText
             ELSE IF kind = "Bool" THEN bool_to_string(node.value.b)
             ELSE IF kind = "Number" THEN usize_to_string(node.value.n)
             ELSE IF kind = "String" THEN node.value.s
             ELSE node_to_json_string(t, node_index)

(***************************************************************************)
(* The documents that can be loaded and the queries that can be typed.     *)
(***************************************************************************)
\* {"a": {"ab": [1, {"b": "Ab"}]}, "b": 2}
Doc1 ==
    VObject(<<
        Member(<<"a">>, VObject(<<
            Member(<<"a","b">>, VArray(<<
                VNumber(1),
                VObject(<<Member(<<"b">>, VString(<<"A","b">>))>>)
            >>))
        >>)),
        Member(<<"b">>, VNumber(2))
    >>)

\* "ab"
Doc2 == VString(<<"a","b">>)

\* [{}, "a", null]
Doc3 == VArray(<<VObject(<<>>), VString(<<"a">>), VNull>>)

\* {"A": [{"a": 10}, "b"]}
Doc4 ==
    VObject(<<
        Member(<<"A">>, VArray(<<
            VObject(<<Member(<<"a">>, VNumber(10))>>),
            VString(<<"b">>)
        >>))
    >>)

\* [[], [true, {"k": null}]]
Doc5 ==
    VArray(<<
        VArray(<<>>),
        VArray(<<VBool(TRUE), VObject(<<Member(<<"k">>, VNull)>>)>>)
    >>)

\* [null, "a"]
Doc6 == VArray(<<VNull, VString(<<"a">>)>>)

\* {"": {"a": 1}, "a": {"b": 3}, "a.b": 2}
Doc7 ==
    VObject(<<
        Member(<<>>, VObject(<<Member(<<"a">>, VNumber(1))>>)),
        Member(<<"a">>, VObject(<<Member(<<"b">>, VNumber(3))>>)),
        Member(<<"a",".","b">>, VNumber(2))
    >>)

\* []
Doc8 == VArray(<<>>)

Doc(i) ==
    CASE i = 1 -> Doc1 [] i = 2 -> Doc2 [] i = 3 -> Doc6 [] i = 4 -> Doc3
      [] i = 5 -> Doc4 [] i = 6 -> Doc7 [] i = 7 -> Doc8 [] OTHER -> Doc5

Docs == {Doc(i) : i \in 1..NumDocs}

Query(i) ==
    CASE i = 1 -> <<"a">>
      [] i = 2 -> <<"[">>
      [] i = 3 -> <<"2">>
      [] i = 4 -> <<"A","b">>
      [] i = 5 -> <<"1">>
      [] OTHER -> <<".">>

\* the texts SearchQueryChanged can carry: the empty text and the catalogue
Queries == {<<>>} \cup {Query(i) : i \in 1..NumQueries}

\* the viewports Scrolled can report: the initial one and a small window
\* scrolled ten rows down
Viewports == {[offset |-> 0, height |-> 600], [offset |-> 160, height |-> 32]}

(***************************************************************************)
(* App::boot and App::update.                                              *)
(***************************************************************************)
Init ==
    /\ tree = None
    /\ flat_rows = <<>>
    /\ viewport_height = 600
    /\ scroll_offset = 0
    /\ search_query = <<>>
    /\ search_results = <<>>
    /\ search_result_index = None
    /\ search_matches = {}
    /\ search_case_sensitive = FALSE
    /\ search_use_regex = FALSE
    /\ search_regex_error = None
    /\ selected_node = None
    /\ parse_error = None
    /\ last_msg = "boot"
    /\ task = NoTask

search_vars == <<search_query, search_results, search_result_index,
                 search_matches, search_case_sensitive, search_use_regex,
                 search_regex_error>>
view_vars == <<viewport_height, scroll_offset>>

\* Message::FileSelected(Some(path)), the file reads and parses as json
FileSelectedOk ==
    \E json \in Docs :
        /\ tree' = Some(build_tree(json))
        /\ parse_error' = None
        /\ flat_rows' = flatten_visible_nodes(tree'[1])
        /\ task' = ResizeTask
        /\ last_msg' = "FileSelected"
        /\ UNCHANGED <<search_vars, view_vars, selected_node>>

\* Message::FileSelected(Some(path)), the file cannot be read or parsed
FileSelectedErr ==
    /\ parse_error' = Some("error")
    /\ tree' = None
    /\ task' = NoTask
    /\ last_msg' = "FileSelected"
    /\ UNCHANGED <<flat_rows, search_vars, view_vars, selected_node>>

\* node indices of the rows the view shows as toggle buttons
ToggleButtons == {flat_rows[i].node_index : i \in {j \in 1..Len(flat_rows) : flat_rows[j].is_expandable}}
\* node indices of the rows the view shows as select buttons
SelectButtons == {flat_rows[i].node_index : i \in {j \in 1..Len(flat_rows) : ~ flat_rows[j].is_expandable}}
\* node indices of all rows (right press opens the context menu)
RowNodes == {flat_rows[i].node_index : i \in 1..Len(flat_rows)}

\* ToggleNode without the rebuild of flat_rows
ToggleNode_no_rebuild ==
    /\ tree # None
    /\ \E index \in ToggleButtons :
        /\ selected_node' = Some(index)
        /\ tree' = Some(toggle_expanded(tree[1], index))
    /\ task' = NoTask
    /\ last_msg' = "ToggleNode"
    /\ UNCHANGED <<flat_rows, search_vars, view_vars, parse_error>>

\* Message::ToggleNode(index)
ToggleNode ==
    /\ tree # None
    /\ \E index \in ToggleButtons :
        /\ selected_node' = Some(index)
        /\ tree' = Some(toggle_expanded(tree[1], index))
        /\ flat_rows' = flatten_visible_nodes(tree'[1])
    /\ task' = NoTask
    /\ last_msg' = "ToggleNode"
    /\ UNCHANGED <<search_vars, view_vars, parse_error>>

\* Message::Scrolled(viewport)
Scrolled ==
    /\ tree # None
    /\ \E viewport \in Viewports :
        /\ scroll_offset' = viewport.offset
        /\ viewport_height' = viewport.height
    /\ task' = NoTask
    /\ last_msg' = "Scrolled"
    /\ UNCHANGED <<tree, flat_rows, search_vars, selected_node, parse_error>>

\* Message::SelectNode(node_index)
SelectNode ==
    /\ tree # None
    /\ \E node_index \in SelectButtons :
        selected_node' = IF selected_node = Some(node_index) THEN None
                         ELSE Some(node_index)
    /\ task' = NoTask
    /\ last_msg' = "SelectNode"
    /\ UNCHANGED <<tree, flat_rows, search_vars, view_vars, parse_error>>

\* Message::ShowContextMenu(node_index, x, y)
ShowContextMenu ==
    /\ tree # None
    /\ \E node_index \in RowNodes : selected_node' = Some(node_index)
    /\ task' = NoTask
    /\ last_msg' = "ShowContextMenu"
    /\ UNCHANGED <<tree, flat_rows, search_vars, view_vars, parse_error>>

\* the cursor run_search always leaving Some(0)
cursor_after_search_zero(results) == Some(0)

\* the cursor run_search stores for the new result list
cursor_after_search(results) == IF results # <<>> THEN Some(0) ELSE None

\* run_search leaving an earlier regex error in place when the query is empty
run_search_keeps_error(query, case_sensitive, use_regex) ==
    IF query = <<>>
    THEN /\ search_results' = <<>>
         /\ search_result_index' = None
         /\ search_matches' = {}
         /\ task' = NoTask
         /\ UNCHANGED <<tree, flat_rows, search_regex_error>>
    ELSE IF tree # None
    THEN LET found == search_nodes(tree[1], query, case_sensitive, use_regex)
         IN  /\ search_regex_error' = found.error
             /\ search_results' = found.results
             /\ search_matches' = to_set(found.results)
             /\ IF found.results # <<>>
                THEN /\ search_result_index' = cursor_after_search(found.results)
                     /\ tree' = expand_to_node(tree, found.results[1])
                     /\ flat_rows' = flatten_visible_nodes(tree'[1])
                     /\ task' = scroll_to_node(flat_rows', viewport_height,
                                               found.results[1])
                ELSE /\ search_result_index' = cursor_after_search(found.results)
                     /\ flat_rows' = flatten_visible_nodes(tree[1])
                     /\ task' = NoTask
                     /\ UNCHANGED tree
    ELSE /\ task' = NoTask
         /\ UNCHANGED <<tree, flat_rows, search_results, search_result_index,
                        search_matches, search_regex_error>>

\* App::run_search with the query and options the handler has just stored
run_search(query, case_sensitive, use_regex) ==
    IF query = <<>>
    THEN /\ search_results' = <<>>
         /\ search_result_index' = None
         /\ search_matches' = {}
         /\ search_regex_error' = None
         /\ task' = NoTask
         /\ UNCHANGED <<tree, flat_rows>>
    ELSE IF tree # None
    THEN LET found == search_nodes(tree[1], query, case_sensitive, use_regex)
         IN  /\ search_regex_error' = found.error
             /\ search_results' = found.results
             /\ search_matches' = to_set(found.results)
             /\ IF found.results # <<>>
                THEN /\ search_result_index' = cursor_after_search(found.results)
                     /\ tree' = expand_to_node(tree, found.results[1])
                     /\ flat_rows' = flatten_visible_nodes(tree'[1])
                     /\ task' = scroll_to_node(flat_rows', viewport_height,
                                               found.results[1])
                ELSE /\ search_result_index' = cursor_after_search(found.results)
                     /\ flat_rows' = flatten_visible_nodes(tree[1])
                     /\ task' = NoTask
                     /\ UNCHANGED tree
    ELSE /\ task' = NoTask
         /\ UNCHANGED <<tree, flat_rows, search_results, search_result_index,
                        search_matches, search_regex_error>>

\* Message::SearchQueryChanged(query)
SearchQueryChanged ==
    /\ tree # None
    /\ \E query \in Queries :
        /\ search_query' = query
        /\ run_search(query, search_case_sensitive, search_use_regex)
    /\ last_msg' = "SearchQueryChanged"
    /\ UNCHANGED <<search_case_sensitive, search_use_regex, view_vars,
                   selected_node, parse_error>>

\* Message::ToggleCaseSensitive
ToggleCaseSensitive ==
    /\ tree # None
    /\ search_case_sensitive' = ~ search_case_sensitive
    /\ run_search(search_query, search_case_sensitive', search_use_regex)
    /\ last_msg' = "ToggleCaseSensitive"
    /\ UNCHANGED <<search_query, search_use_regex, view_vars, selected_node,
                   parse_error>>

\* Message::ToggleRegex
ToggleRegex ==
    /\ tree # None
    /\ search_use_regex' = ~ search_use_regex
    /\ run_search(search_query, search_case_sensitive, search_use_regex')
    /\ last_msg' = "ToggleRegex"
    /\ UNCHANGED <<search_query, search_case_sensitive, view_vars,
                   selected_node, parse_error>>

\* the cursor SearchNext selects
next_index(cursor, len) == IF cursor # None THEN (cursor[1] + 1) % len ELSE 0

\* prev_index stopping at the first result instead of wrapping
prev_index_saturating(cursor, len) ==
    IF cursor # None
    THEN IF cursor[1] = 0 THEN 0 ELSE cursor[1] - 1
    ELSE len - 1

\* the cursor SearchPrev selects
prev_index(cursor, len) ==
    IF cursor # None
    THEN IF cursor[1] = 0 THEN len - 1 ELSE cursor[1] - 1
    ELSE len - 1

\* the common tail of SearchNext and SearchPrev once new_index is chosen
\* the navigation collapsing the whole tree before it reveals the result
navigate_to_collapsing(new_index) ==
    LET node_index == search_results[new_index + 1]
    IN  /\ search_result_index' = Some(new_index)
        /\ tree' = expand_to_node(
                       IF tree = None THEN None
                       ELSE Some(set_expanded_recursive(tree[1],
                                                        tree[1].root_index,
                                                        FALSE)),
                       node_index)
        /\ flat_rows' = IF tree' # None THEN flatten_visible_nodes(tree'[1])
                        ELSE flat_rows
        /\ task' = scroll_to_node(flat_rows', viewport_height, node_index)

navigate_to(new_index) ==
    LET node_index == search_results[new_index + 1]
    IN  /\ search_result_index' = Some(new_index)
        /\ tree' = expand_to_node(tree, node_index)
        /\ flat_rows' = IF tree' # None THEN flatten_visible_nodes(tree'[1])
                        ELSE flat_rows
        /\ task' = scroll_to_node(flat_rows', viewport_height, node_index)

\* Message::SearchNext
SearchNext ==
    /\ IF search_results # <<>>
       THEN navigate_to(next_index(search_result_index, Len(search_results)))
       ELSE /\ task' = NoTask
            /\ UNCHANGED <<tree, flat_rows, search_result_index>>
    /\ last_msg' = "SearchNext"
    /\ UNCHANGED <<search_query, search_results, search_matches,
                   search_case_sensitive, search_use_regex, search_regex_error,
                   view_vars, selected_node, parse_error>>

\* Message::SearchPrev
SearchPrev ==
    /\ IF search_results # <<>>
       THEN navigate_to(prev_index(search_result_index, Len(search_results)))
       ELSE /\ task' = NoTask
            /\ UNCHANGED <<tree, flat_rows, search_result_index>>
    /\ last_msg' = "SearchPrev"
    /\ UNCHANGED <<search_query, search_results, search_matches,
                   search_case_sensitive, search_use_regex, search_regex_error,
                   view_vars, selected_node, parse_error>>

\* ClearSearch leaving the cursor where it is
ClearSearch_keeps_cursor ==
    /\ search_query' = <<>>
    /\ search_results' = <<>>
    /\ search_matches' = {}
    /\ search_regex_error' = None
    /\ task' = NoTask
    /\ last_msg' = "ClearSearch"
    /\ UNCHANGED <<tree, flat_rows, search_result_index,
                   search_case_sensitive, search_use_regex,
                   view_vars, selected_node, parse_error>>

\* Message::ClearSearch
ClearSearch ==
    /\ search_query' = <<>>
    /\ search_results' = <<>>
    /\ search_result_index' = None
    /\ search_matches' = {}
    /\ search_regex_error' = None
    /\ task' = NoTask
    /\ last_msg' = "ClearSearch"
    /\ UNCHANGED <<tree, flat_rows, search_case_sensitive, search_use_regex,
                   view_vars, selected_node, parse_error>>

\* the body shared by ExpandAllChildren and CollapseAllChildren
set_all_children(expanded) ==
    IF selected_node # None
    THEN /\ tree' = IF tree # None
                    THEN Some(set_expanded_recursive(tree[1], selected_node[1],
                                                     expanded))
                    ELSE tree
         /\ flat_rows' = IF tree' # None THEN flatten_visible_nodes(tree'[1])
                         ELSE flat_rows
    ELSE UNCHANGED <<tree, flat_rows>>

\* Message::ExpandAllChildren
ExpandAllChildren ==
    /\ set_all_children(TRUE)
    /\ task' = NoTask
    /\ last_msg' = "ExpandAllChildren"
    /\ UNCHANGED <<search_vars, view_vars, selected_node, parse_error>>

\* Message::CollapseAllChildren
CollapseAllChildren ==
    /\ set_all_children(FALSE)
    /\ task' = NoTask
    /\ last_msg' = "CollapseAllChildren"
    /\ UNCHANGED <<search_vars, view_vars, selected_node, parse_error>>

Next ==
    \/ FileSelectedOk
    \/ FileSelectedErr
    \/ ToggleNode
    \/ Scrolled
    \/ SelectNode
    \/ ShowContextMenu
    \/ SearchQueryChanged
    \/ ToggleCaseSensitive
    \/ ToggleRegex
    \/ SearchNext
    \/ SearchPrev
    \/ ClearSearch
    \/ ExpandAllChildren
    \/ CollapseAllChildren

Spec == Init /\ [][Next]_vars

(***************************************************************************)
(* The tree store driven directly, as the unit tests of parser/tree.rs and *)
(* parser/builder.rs drive it: a caller owns one JsonTree, builds it from  *)
(* a document and calls toggle_expanded and set_expanded with any index,   *)
(* valid or not.  Here last_msg holds the last two calls, the newest last, *)
(* each with the tree it was made on; the fields of App other than tree    *)
(* keep their boot values.                                                 *)
(***************************************************************************)
TreeDocs == {Doc(i) : i \in 1..NumTreeDocs}

\* the indices a caller can pass: every node and two indices past the end
IndexInputs(t) == 0..(Len(t.nodes) + 1)

Call(op, index, expanded, before) ==
    [op |-> op, index |-> index, expanded |-> expanded, before |-> before]

\* the log after one more call: the call before it and the call itself
Logged(call) == <<last_msg[Len(last_msg)], call>>

LastCall == last_msg[Len(last_msg)]
PrevCall == last_msg[1]

app_vars == <<flat_rows, viewport_height, scroll_offset, search_query,
              search_results, search_result_index, search_matches,
              search_case_sensitive, search_use_regex, search_regex_error,
              selected_node, parse_error, task>>

\* JsonTree::new()
TreeInit ==
    /\ tree = Some(JsonTree_new)
    /\ last_msg = <<Call("new", 0, FALSE, JsonTree_new)>>
    /\ flat_rows = <<>>
    /\ viewport_height = 600
    /\ scroll_offset = 0
    /\ search_query = <<>>
    /\ search_results = <<>>
    /\ search_result_index = None
    /\ search_matches = {}
    /\ search_case_sensitive = FALSE
    /\ search_use_regex = FALSE
    /\ search_regex_error = None
    /\ selected_node = None
    /\ parse_error = None
    /\ task = NoTask

\* let mut tree = build_tree(&value)
CallBuildTree ==
    /\ \E json \in TreeDocs :
        /\ tree' = Some(build_tree(json))
        /\ last_msg' = Logged(Call("build_tree", 0, FALSE, tree[1]))
    /\ UNCHANGED app_vars

\* tree.toggle_expanded(index)
CallToggleExpanded ==
    /\ \E index \in IndexInputs(tree[1]) :
        /\ tree' = Some(toggle_expanded(tree[1], index))
        /\ last_msg' = Logged(Call("toggle_expanded", index, FALSE, tree[1]))
    /\ UNCHANGED app_vars

\* tree.set_expanded(index, expanded)
CallSetExpanded ==
    /\ \E index \in IndexInputs(tree[1]), expanded \in BOOLEAN :
        /\ tree' = Some(set_expanded(tree[1], index, expanded))
        /\ last_msg' = Logged(Call("set_expanded", index, expanded, tree[1]))
    /\ UNCHANGED app_vars

TreeNext ==
    \/ CallBuildTree
    \/ CallToggleExpanded
    \/ CallSetExpanded

TreeSpec == TreeInit /\ [][TreeNext]_vars

(***************************************************************************)
(* A third specification, of the scrolled view alone: documents that are   *)
(* flat arrays of up to MaxRows items are loaded one after the other, and  *)
(* the scrollable reports viewports of several heights at several offsets. *)
(* The column view builds is total_rows * ROW_HEIGHT high, so an offset    *)
(* the scrollable reports is at most that height less the viewport's.      *)
(***************************************************************************)
\* [null, null, ...] with n items
RowsDoc(n) == VArray([i \in 1..n |-> VNull])

RowCounts == {0, 2, MaxRows \div 3, MaxRows}

ViewOffsets == {0, 8, 16, 48, 100, 160, 200}

ViewHeights == {0, 8, 40, 600}

\* Message::FileSelected(Some(path)) for a flat array
ViewFileSelected ==
    \E n \in RowCounts :
        /\ tree' = Some(build_tree(RowsDoc(n)))
        /\ parse_error' = None
        /\ flat_rows' = flatten_visible_nodes(tree'[1])
        /\ task' = ResizeTask
        /\ last_msg' = "FileSelected"
        /\ UNCHANGED <<search_vars, view_vars, selected_node>>

\* Message::Scrolled(viewport)
ViewScrolled ==
    /\ tree # None
    /\ \E offset \in ViewOffsets, height \in ViewHeights :
        /\ offset <= Max((Len(flat_rows) * ROW_HEIGHT) - height, 0)
        /\ scroll_offset' = offset
        /\ viewport_height' = height
    /\ task' = NoTask
    /\ last_msg' = "Scrolled"
    /\ UNCHANGED <<tree, flat_rows, search_vars, selected_node, parse_error>>

ViewNext ==
    \/ ViewFileSelected
    \/ ViewScrolled

ViewSpec == Init /\ [][ViewNext]_vars

(***************************************************************************)
(* A fourth specification, of the serialization alone: a caller builds a   *)
(* document and asks for the spaced text, the minified text or the copy    *)
(* text of any index, valid or not.  Here last_msg holds the last call     *)
(* with the text it returned.                                              *)
(***************************************************************************)
\* {"a": [1, "x, y", {"k": "p: q"}], "b": true}
TextDoc1 ==
    VObject(<<
        Member(<<"a">>, VArray(<<
            VNumber(1),
            VString(<<"x",","," ","y">>),
            VObject(<<Member(<<"k">>, VString(<<"p",":"," ","q">>))>>)
        >>)),
        Member(<<"b">>, VBool(TRUE))
    >>)

\* ["a\"b", "\\", "\n\t\r", null, false]
TextDoc2 ==
    VArray(<<
        VString(<<"a","\"","b">>),
        VString(<<"\\">>),
        VString(<<"\n","\t","\r">>),
        VNull,
        VBool(FALSE)
    >>)

\* {}
TextDoc3 == VObject(<<>>)

\* [[], {}, 20]
TextDoc4 == VArray(<<VArray(<<>>), VObject(<<>>), VNumber(20)>>)

\* {"k\"": [1, 2]}
TextDoc5 ==
    VObject(<<Member(<<"k","\"">>, VArray(<<VNumber(1), VNumber(2)>>))>>)

\* "a b"
TextDoc6 == VString(<<"a"," ","b">>)

\* 7
TextDoc7 == VNumber(7)

TextDoc(i) ==
    CASE i = 1 -> TextDoc1 [] i = 2 -> TextDoc2 [] i = 3 -> TextDoc3
      [] i = 4 -> TextDoc4 [] i = 5 -> TextDoc5 [] i = 6 -> TextDoc6
      [] OTHER -> TextDoc7

TextDocs == {TextDoc(i) : i \in 1..NumTextDocs}

ExportCall(op, index, text) == [op |-> op, index |-> index, text |-> text]

\* JsonTree::new()
ExportInit ==
    /\ tree = Some(JsonTree_new)
    /\ last_msg = ExportCall("new", 0, <<>>)
    /\ flat_rows = <<>>
    /\ viewport_height = 600
    /\ scroll_offset = 0
    /\ search_query = <<>>
    /\ search_results = <<>>
    /\ search_result_index = None
    /\ search_matches = {}
    /\ search_case_sensitive = FALSE
    /\ search_use_regex = FALSE
    /\ search_regex_error = None
    /\ selected_node = None
    /\ parse_error = None
    /\ task = NoTask

\* let tree = build_tree(&value)
ExportBuildTree ==
    /\ \E json \in TextDocs :
        /\ tree' = Some(build_tree(json))
        /\ last_msg' = ExportCall("build_tree", 0, <<>>)
    /\ UNCHANGED app_vars

\* node_to_json_string(&tree, index)
CallNodeToJsonString ==
    /\ \E index \in IndexInputs(tree[1]) :
        last_msg' = ExportCall("node_to_json_string", index,
                               node_to_json_string(tree[1], index))
    /\ UNCHANGED <<tree, app_vars>>

\* node_to_json_string_minified(&tree, index)
CallNodeToJsonStringMinified ==
    /\ \E index \in IndexInputs(tree[1]) :
        last_msg' = ExportCall("node_to_json_string_minified", index,
                               node_to_json_string_minified(tree[1], index))
    /\ UNCHANGED <<tree, app_vars>>

\* format_node_value_for_copy(&tree, index)
CallFormatNodeValueForCopy ==
    /\ \E index \in IndexInputs(tree[1]) :
        last_msg' = ExportCall("format_node_value_for_copy", index,
                               format_node_value_for_copy(tree[1], index))
    /\ UNCHANGED <<tree, app_vars>>

ExportNext ==
    \/ ExportBuildTree
    \/ CallNodeToJsonString
    \/ CallNodeToJsonStringMinified
    \/ CallFormatNodeValueForCopy

ExportSpec == ExportInit /\ [][ExportNext]_vars

(***************************************************************************)
(* A fifth specification, of the search engine alone: a caller builds a    *)
(* document and calls search_nodes with any query of a catalogue and any   *)
(* options.  Here last_msg holds the last two calls, the newest last, each *)
(* with what it returned.                                                  *)
(***************************************************************************)
\* {"Name": "Unfold", "name": ["unfold", true]}
SearchDoc1 ==
    VObject(<<
        Member(<<"N","a","m","e">>, VString(<<"U","n","f","o","l","d">>)),
        Member(<<"n","a","m","e">>, VArray(<<
            VString(<<"u","n","f","o","l","d">>),
            VBool(TRUE)
        >>))
    >>)

\* two strings in Greek letters: capital alpha and capital sigma; small sigma
SearchDoc2 == VArray(<<VString(<<"ALPHA","SIGMA">>), VString(<<"sigma">>)>>)

\* {"ab": "ab", "b": null}
SearchDoc3 ==
    VObject(<<
        Member(<<"a","b">>, VString(<<"a","b">>)),
        Member(<<"b">>, VNull)
    >>)

\* "name"
SearchDoc4 == VString(<<"n","a","m","e">>)

SearchDoc(i) ==
    CASE i = 1 -> SearchDoc1 [] i = 2 -> SearchDoc2 [] i = 3 -> SearchDoc3
      [] OTHER -> SearchDoc4

SearchDocs == {SearchDoc(i) : i \in 1..NumSearchDocs}

SearchQuery(i) ==
    CASE i = 1 -> <<"U","n","f","o","l","d">>
      [] i = 2 -> <<"u","n","f","o","l","d">>
      [] i = 3 -> <<"SIGMA">>
      [] i = 4 -> <<"sigma">>
      [] i = 5 -> <<"[">>
      [] i = 6 -> <<"a","b">>
      [] OTHER -> <<"N">>

\* the queries a caller passes: the empty one and the catalogue
SearchQueries == {<<>>} \cup {SearchQuery(i) : i \in 1..NumSearchQueries}

SearchCall(op, query, case_sensitive, use_regex, found) ==
    [op |-> op, query |-> query, case_sensitive |-> case_sensitive,
     use_regex |-> use_regex, results |-> found.results, error |-> found.error]

NothingFound == [results |-> <<>>, error |-> None]

\* JsonTree::new()
SearchInit ==
    /\ tree = Some(JsonTree_new)
    /\ last_msg = <<SearchCall("new", <<>>, FALSE, FALSE, NothingFound)>>
    /\ flat_rows = <<>>
    /\ viewport_height = 600
    /\ scroll_offset = 0
    /\ search_query = <<>>
    /\ search_results = <<>>
    /\ search_result_index = None
    /\ search_matches = {}
    /\ search_case_sensitive = FALSE
    /\ search_use_regex = FALSE
    /\ search_regex_error = None
    /\ selected_node = None
    /\ parse_error = None
    /\ task = NoTask

\* let tree = build_tree(&value)
SearchBuildTree ==
    /\ \E json \in SearchDocs :
        /\ tree' = Some(build_tree(json))
        /\ last_msg' = Logged(SearchCall("build_tree", <<>>, FALSE, FALSE,
                                         NothingFound))
    /\ UNCHANGED app_vars

\* a search call that leaves out the nodes the call before it returned
CallSearchNodes_remembering ==
    /\ \E query \in SearchQueries, case_sensitive \in BOOLEAN, use_regex \in BOOLEAN :
        LET found == search_nodes(tree[1], query, case_sensitive, use_regex)
        IN  last_msg' = Logged(SearchCall("search_nodes", query, case_sensitive,
                                  use_regex,
                                  [results |-> SelectSeq(found.results,
                                                  LAMBDA n : n \notin to_set(LastCall.results)),
                                   error |-> found.error]))
    /\ UNCHANGED <<tree, app_vars>>

\* search_nodes(&tree, query, case_sensitive, use_regex)
CallSearchNodes ==
    /\ \E query \in SearchQueries, case_sensitive \in BOOLEAN, use_regex \in BOOLEAN :
        last_msg' = Logged(SearchCall("search_nodes", query, case_sensitive,
                                      use_regex,
                                      search_nodes(tree[1], query,
                                                   case_sensitive, use_regex)))
    /\ UNCHANGED <<tree, app_vars>>

SearchNextCall ==
    \/ SearchBuildTree
    \/ CallSearchNodes

SearchSpec == SearchInit /\ [][SearchNextCall]_vars

(***************************************************************************)
(* Vocabulary of the properties.                                           *)
(***************************************************************************)
NodeIds(t) == 0..(Len(t.nodes) - 1)

IsChildOf(t, c, p) ==
    \E i \in 1..Len(t.nodes[p + 1].children) : t.nodes[p + 1].children[i] = c

ParentOf(t, c) == CHOOSE p \in NodeIds(t) : IsChildOf(t, c, p)

RECURSIVE ProperAncestors(_, _)
\* the nodes on the way from the root down to the parent of n
ProperAncestors(t, n) ==
    IF n \notin NodeIds(t) \/ ~ \E p \in NodeIds(t) : IsChildOf(t, n, p) THEN {}
    ELSE {ParentOf(t, n)} \cup ProperAncestors(t, ParentOf(t, n))

HasRow(rows, n) == \E k \in 1..Len(rows) : rows[k].node_index = n

Expanded(t, n) == t.nodes[n + 1].expanded

IsContainer(t, n) == t.nodes[n + 1].value.kind \in {"Array", "Object"}

RECURSIVE PreOrder(_, _)
RECURSIVE PreOrderOfChildren(_, _, _)
PreOrderOfChildren(t, children, i) ==
    IF i > Len(children) THEN <<>>
    ELSE PreOrder(t, children[i]) \o PreOrderOfChildren(t, children, i + 1)

\* the nodes of the subtree of n as a fully expanded view lists them
PreOrder(t, n) == <<n>> \o PreOrderOfChildren(t, t.nodes[n + 1].children, 1)

\* the line of node n in the fully expanded top-to-bottom view
DisplayLine(t, n) ==
    LET order == PreOrder(t, t.root_index)
    IN  CHOOSE k \in 1..Len(order) : order[k] = n

\* every (query, case_sensitive, use_regex) the search bar can hold
SearchArgs == Queries \X BOOLEAN \X BOOLEAN

ResultsFor(t, args) == search_nodes(t, args[1], args[2], args[3]).results

\* the messages whose handler ends in run_search
SearchChangeMsgs == {"SearchQueryChanged", "ToggleCaseSensitive", "ToggleRegex"}

\* the messages whose handler reveals the result under the cursor
RevealMsgs == SearchChangeMsgs \cup {"SearchNext", "SearchPrev"}

\* the node under the cursor
CurrentResult == search_results[search_result_index[1] + 1]

\* the arguments run_search has passed to search_nodes
CurrentArgs == <<search_query, search_case_sensitive, search_use_regex>>

\* run_search has just stored what search_nodes returned for the loaded tree
FreshResults == tree # None /\ last_msg \in SearchChangeMsgs

(***************************************************************************)
(* C1: a non-root node has a row in flatten(tree) if and only if every     *)
(* ancestor of it strictly below the root is expanded; the root's own flag *)
(* does not matter.                                                        *)
(***************************************************************************)
C1_FlattenVisibility ==
    tree # None =>
        LET t == tree[1]
            rows == flatten_visible_nodes(t)
        IN  \A n \in NodeIds(t) \ {t.root_index} :
                HasRow(rows, n) <=>
                    \A a \in ProperAncestors(t, n) \ {t.root_index} : Expanded(t, a)

\* a collapsed root, a row three levels down and a node hidden by a
\* collapsed ancestor, all in one tree
C1_Witness ==
    /\ tree # None
    /\ ~ Expanded(tree[1], tree[1].root_index)
    /\ \E n \in NodeIds(tree[1]) :
            tree[1].nodes[n + 1].depth >= 3 /\ HasRow(flat_rows, n)
    /\ \E n \in NodeIds(tree[1]) \ {tree[1].root_index} : ~ HasRow(flat_rows, n)

(***************************************************************************)
(* C2: while a tree is loaded, the stored flat_rows equals                 *)
(* flatten_visible_nodes of the current tree after every event.            *)
(***************************************************************************)
C2_RowsNeverStale ==
    tree # None => flat_rows = flatten_visible_nodes(tree[1])

\* a toggle has just changed the rows: some row lies below the first level
C2_Witness ==
    /\ tree # None
    /\ last_msg = "ToggleNode"
    /\ \E k \in 1..Len(flat_rows) :
            tree[1].nodes[flat_rows[k].node_index + 1].depth >= 2

C4_NoContainerInResults ==
    FreshResults =>
        \A i \in 1..Len(search_results) : ~ IsContainer(tree[1], search_results[i])

\* does the key of node n match under the given search arguments
KeyMatches(t, n, args) ==
    LET node == t.nodes[n + 1]
        re == IF args[3]
              THEN Some(RegexNew(IF args[2] THEN args[1] ELSE CaseFlag \o args[1]))
              ELSE None
    IN  node.key # None /\ matches(re, args[1], args[2], node.key[1])

(***************************************************************************)
(* C4 amended: search_nodes returns an Array or Object node only when the  *)
(* key of that node matches the query; a container never matches through   *)
(* its value.                                                              *)
(***************************************************************************)
C4_ContainerOnlyByKey ==
    FreshResults =>
        \A i \in 1..Len(search_results) :
            IsContainer(tree[1], search_results[i]) =>
                KeyMatches(tree[1], search_results[i], CurrentArgs)

\* the current results hold a container, the root has children and is not
\* among them
C4_Witness ==
    /\ tree # None
    /\ last_msg \in SearchChangeMsgs
    /\ search_results =
           ResultsFor(tree[1], <<search_query, search_case_sensitive, search_use_regex>>)
    /\ \E i \in 1..Len(search_results) : IsContainer(tree[1], search_results[i])
    /\ IsContainer(tree[1], tree[1].root_index)
    /\ tree[1].root_index \notin search_matches

\* the expanded flag of every node of the loaded tree
ExpandedFlags == [n \in NodeIds(tree[1]) |-> Expanded(tree[1], n)]

RECURSIVE NextTimes(_, _, _)
\* the cursor after k consecutive SearchNext on a list of length len
NextTimes(cursor, len, k) ==
    IF k = 0 THEN cursor
    ELSE NextTimes(Some(next_index(cursor, len)), len, k - 1)

(***************************************************************************)
(* C6: with a result list of length n > 0, SearchNext moves the cursor     *)
(* from i to (i+1) mod n and SearchPrev from i to (i-1) mod n; SearchNext  *)
(* then SearchPrev restores the cursor and n SearchNext in a row return it *)
(* to where it started.                                                    *)
(***************************************************************************)
C6_CursorCycles ==
    /\ [][(search_results # <<>> /\ search_result_index # None) =>
            LET i == search_result_index[1]
                n == Len(search_results)
            IN  /\ last_msg' = "SearchNext" =>
                        search_result_index' = Some((i + 1) % n)
                /\ last_msg' = "SearchPrev" =>
                        search_result_index' = Some((i + n - 1) % n)]_vars
    /\ [](search_results # <<>> /\ search_result_index # None =>
            LET n == Len(search_results)
            IN  /\ search_result_index[1] \in 0..(n - 1)
                /\ Some(prev_index(Some(next_index(search_result_index, n)), n))
                       = search_result_index
                /\ NextTimes(search_result_index, n, n) = search_result_index)

\* SearchPrev has just wrapped from the first result to the last of three
C6_Witness ==
    /\ last_msg = "SearchPrev"
    /\ Len(search_results) >= 3
    /\ search_result_index = Some(Len(search_results) - 1)

(***************************************************************************)
(* C7: after a change of the query or of the case/regex options with a     *)
(* tree loaded, the cursor is Some(0) when the new result list is          *)
(* non-empty and None when it is empty.                                    *)
(***************************************************************************)
C7_CursorAfterSearch ==
    (tree # None /\ last_msg \in SearchChangeMsgs) =>
        /\ search_results # <<>> => search_result_index = Some(0)
        /\ search_results = <<>> => search_result_index = None

\* an option toggle has just produced a fresh non-empty result list
C7_Witness ==
    /\ tree # None
    /\ last_msg = "ToggleCaseSensitive"
    /\ Len(search_results) >= 2
    /\ search_result_index = Some(0)

(***************************************************************************)
(* C8 as stated: after every SearchQueryChanged, SearchNext or SearchPrev  *)
(* that leaves the cursor at Some(i), search_results[i] has a row in       *)
(* flat_rows and the scroll to it is performed.                            *)
(***************************************************************************)
C8_ResultAlwaysShown ==
    (last_msg \in {"SearchQueryChanged", "SearchNext", "SearchPrev"}
        /\ search_result_index # None) =>
        /\ HasRow(flat_rows, CurrentResult)
        /\ task.kind = "scroll_to"

(***************************************************************************)
(* C8 amended: after every SearchQueryChanged, SearchNext or SearchPrev    *)
(* handled with a tree loaded that leaves the cursor at Some(i),           *)
(* search_results[i] has a row in flat_rows and the scroll to it is        *)
(* performed exactly when it is a node of the loaded tree other than the   *)
(* root; the root, which a scalar document matches, never has a row.       *)
(***************************************************************************)
C8_NonRootResultShown ==
    (tree # None
        /\ last_msg \in {"SearchQueryChanged", "SearchNext", "SearchPrev"}
        /\ search_result_index # None) =>
        IF CurrentResult \in NodeIds(tree[1]) \ {tree[1].root_index}
        THEN /\ HasRow(flat_rows, CurrentResult)
             /\ \A a \in ProperAncestors(tree[1], CurrentResult) :
                    Expanded(tree[1], a)
             /\ task.kind = "scroll_to"
        ELSE /\ ~ HasRow(flat_rows, CurrentResult)
             /\ task = NoTask

\* SearchNext has just brought a node four levels down into the rows
C8_Witness ==
    /\ tree # None
    /\ last_msg = "SearchNext"
    /\ search_result_index # None
    /\ CurrentResult \in NodeIds(tree[1])
    /\ tree[1].nodes[CurrentResult + 1].depth >= 4
    /\ HasRow(flat_rows, CurrentResult)
    /\ task.kind = "scroll_to"

\* the step is a handler that has revealed the node now under the cursor
Revealed ==
    /\ tree # None
    /\ tree' # None
    /\ last_msg' \in RevealMsgs
    /\ search_result_index' # None

(***************************************************************************)
(* C9: reveal of a target sets expanded on every proper ancestor of the    *)
(* target, from the root down to its parent, and leaves the target's own   *)
(* flag at its previous value.                                             *)
(***************************************************************************)
C9_RevealOpensAncestors ==
    [][Revealed =>
        LET target == CurrentResult'
        IN  /\ \A a \in ProperAncestors(tree[1], target) : Expanded(tree'[1], a)
            /\ target \in NodeIds(tree[1]) =>
                    Expanded(tree'[1], target) = Expanded(tree[1], target)]_vars

\* a container three levels down has just been revealed and is still closed
C9_Witness ==
    /\ tree # None
    /\ last_msg \in RevealMsgs
    /\ search_result_index # None
    /\ CurrentResult \in NodeIds(tree[1])
    /\ IsContainer(tree[1], CurrentResult)
    /\ tree[1].nodes[CurrentResult + 1].depth >= 3
    /\ ~ Expanded(tree[1], CurrentResult)
    /\ \A a \in ProperAncestors(tree[1], CurrentResult) : Expanded(tree[1], a)

(***************************************************************************)
(* C10: reveal of a target changes the expanded flag of no node other than *)
(* the proper ancestors of the target, and nothing else of the tree.       *)
(***************************************************************************)
C10_RevealFrame ==
    [][Revealed =>
        LET target == CurrentResult'
        IN  /\ Len(tree'[1].nodes) = Len(tree[1].nodes)
            /\ tree'[1].root_index = tree[1].root_index
            /\ \A n \in NodeIds(tree[1]) :
                    IF n \in ProperAncestors(tree[1], target)
                    THEN tree'[1].nodes[n + 1] =
                            [tree[1].nodes[n + 1] EXCEPT !.expanded = TRUE]
                    ELSE tree'[1].nodes[n + 1] = tree[1].nodes[n + 1]]_vars

\* a node three levels down has just been revealed while a container
\* beside its branch is still closed
C10_Witness ==
    /\ tree # None
    /\ last_msg \in RevealMsgs
    /\ search_result_index # None
    /\ CurrentResult \in NodeIds(tree[1])
    /\ \E n \in NodeIds(tree[1]) :
            /\ IsContainer(tree[1], n)
            /\ n # CurrentResult
            /\ n \notin ProperAncestors(tree[1], CurrentResult)
            /\ CurrentResult \notin ProperAncestors(tree[1], n)
            /\ ~ Expanded(tree[1], n)
    /\ tree[1].nodes[CurrentResult + 1].depth >= 3
    /\ \A a \in ProperAncestors(tree[1], CurrentResult) : Expanded(tree[1], a)

\* the expanded flag of every node of a tree
FlagsOf(t) == [n \in NodeIds(t) |-> Expanded(t, n)]

(***************************************************************************)
(* C11: reveal is idempotent: revealing the same target twice in a row     *)
(* gives the tree that revealing it once gives, and revealing a node that  *)
(* already has a row in flat_rows changes no expanded flag of any node.    *)
(***************************************************************************)
C11_RevealIdempotent ==
    /\ [](tree # None =>
            \A n \in IndexInputs(tree[1]) :
                expand_to_node(expand_to_node(tree, n), n) = expand_to_node(tree, n))
    /\ [][(Revealed /\ HasRow(flat_rows, CurrentResult')) =>
            FlagsOf(tree'[1]) = FlagsOf(tree[1])]_vars

(***************************************************************************)
(* C12: flatten lists the visible nodes in document pre-order (the row of  *)
(* a node before the rows of its visible descendants, siblings in          *)
(* child-list order), and the k-th row produced has row_index = k, so the  *)
(* row_index values are exactly 0..N-1 without gap or repeat.              *)
(***************************************************************************)
C12_RowsInPreOrder ==
    tree # None =>
        LET t    == tree[1]
            rows == flatten_visible_nodes(t)
        IN  /\ \A k \in 1..Len(rows) : rows[k].row_index = k - 1
            /\ \A i, j \in 1..Len(rows) :
                    i < j => DisplayLine(t, rows[i].node_index)
                                < DisplayLine(t, rows[j].node_index)
            /\ \A i, j \in 1..Len(rows) :
                    rows[i].node_index \in ProperAncestors(t, rows[j].node_index)
                        => i < j

\* five rows or more, one of them three levels down, while a container
\* with children is shown collapsed
C12_Witness ==
    /\ tree # None
    /\ Len(flat_rows) >= 5
    /\ \E k \in 1..Len(flat_rows) :
            tree[1].nodes[flat_rows[k].node_index + 1].depth >= 3
    /\ \E k \in 1..Len(flat_rows) :
            /\ flat_rows[k].is_expandable
            /\ ~ flat_rows[k].is_expanded
            /\ tree[1].nodes[flat_rows[k].node_index + 1].children # <<>>

\* the last two calls were toggle_expanded on the same container index
ToggledTwice ==
    /\ Len(last_msg) = 2
    /\ PrevCall.op = "toggle_expanded"
    /\ LastCall.op = "toggle_expanded"
    /\ LastCall.index = PrevCall.index
    /\ LastCall.index \in NodeIds(PrevCall.before)
    /\ IsContainer(PrevCall.before, LastCall.index)

(***************************************************************************)
(* C13: toggle_expanded applied twice in succession to the same container  *)
(* index returns the expanded flag of that node to its original value and  *)
(* leaves the whole tree equal to its state before the two calls.          *)
(***************************************************************************)
C13_ToggleTwiceRestores ==
    ToggledTwice =>
        /\ Expanded(tree[1], LastCall.index)
               = Expanded(PrevCall.before, LastCall.index)
        /\ tree[1] = PrevCall.before

\* the root was toggled twice while another container was open, and is
\* open again as it was before
C13_Witness ==
    /\ ToggledTwice
    /\ LastCall.index = tree[1].root_index
    /\ Expanded(tree[1], LastCall.index)
    /\ ~ Expanded(LastCall.before, LastCall.index)
    /\ \E n \in NodeIds(tree[1]) \ {LastCall.index} : Expanded(tree[1], n)

\* call c was toggle_expanded or set_expanded with an index that is out of
\* range or that refers to a scalar node
BadIndexCall(c) ==
    /\ c.op \in {"toggle_expanded", "set_expanded"}
    /\ \/ c.index \notin NodeIds(c.before)
       \/ ~ IsContainer(c.before, c.index)

(***************************************************************************)
(* C14: toggle_expanded and set_expanded called with an index that is out  *)
(* of range, or that refers to a scalar node, change nothing in the tree   *)
(* and do not fail; get_node on an out-of-range index returns None.        *)
(***************************************************************************)
C14_BadIndexIsNoOp ==
    /\ BadIndexCall(LastCall) => tree[1] = LastCall.before
    /\ \A index \in IndexInputs(tree[1]) :
            get_node(tree[1], index) = None <=> index >= node_count(tree[1])

\* set_expanded(scalar, true) was followed by toggle_expanded past the end
\* of a tree of three nodes or more
C14_Witness ==
    /\ Len(last_msg) = 2
    /\ BadIndexCall(PrevCall)
    /\ PrevCall.op = "set_expanded"
    /\ PrevCall.expanded
    /\ PrevCall.index \in NodeIds(PrevCall.before)
    /\ BadIndexCall(LastCall)
    /\ LastCall.op = "toggle_expanded"
    /\ LastCall.index >= node_count(tree[1])
    /\ node_count(tree[1]) >= 3

\* the messages whose handler can change an expanded flag
ExpandCollapseMsgs ==
    RevealMsgs \cup {"ToggleNode", "ExpandAllChildren", "CollapseAllChildren"}

(***************************************************************************)
(* C15: no expand/collapse operation (toggle, set_expanded, reveal,        *)
(* recursive expand/collapse, search navigation) changes the number of     *)
(* nodes, the root index, or the key, value, depth or child list of any    *)
(* node: only expanded flags change, so a node index obtained before the   *)
(* operation denotes the same node afterwards.                             *)
(***************************************************************************)
C15_IndexStability ==
    [][(tree # None /\ last_msg' \in ExpandCollapseMsgs) =>
            /\ tree' # None
            /\ node_count(tree'[1]) = node_count(tree[1])
            /\ root_index(tree'[1]) = root_index(tree[1])
            /\ \A n \in NodeIds(tree[1]) :
                    /\ tree'[1].nodes[n + 1].key = tree[1].nodes[n + 1].key
                    /\ tree'[1].nodes[n + 1].value = tree[1].nodes[n + 1].value
                    /\ tree'[1].nodes[n + 1].depth = tree[1].nodes[n + 1].depth
                    /\ tree'[1].nodes[n + 1].children
                           = tree[1].nodes[n + 1].children]_vars

\* a recursive collapse has just closed a subtree that a search had opened
\* down to the fourth level
C15_Witness ==
    /\ tree # None
    /\ last_msg = "CollapseAllChildren"
    /\ search_result_index # None
    /\ CurrentResult \in NodeIds(tree[1])
    /\ tree[1].nodes[CurrentResult + 1].depth >= 4
    /\ ~ HasRow(flat_rows, CurrentResult)
    /\ Expanded(tree[1], tree[1].root_index)

\* the last call was build_tree: tree is what it returned
JustBuilt == LastCall.op = "build_tree"

(***************************************************************************)
(* C16: in every tree produced by build_tree, every index in the child     *)
(* list of any node is a valid node index of that tree, the root has       *)
(* depth 0, and the depth of each child is the depth of its parent + 1.    *)
(***************************************************************************)
C16_ChildrenValidAndOneDeeper ==
    JustBuilt =>
        LET t == tree[1]
        IN  /\ root_index(t) \in NodeIds(t)
            /\ t.nodes[root_index(t) + 1].depth = 0
            /\ \A n \in NodeIds(t) :
                    \A i \in 1..Len(t.nodes[n + 1].children) :
                        LET c == t.nodes[n + 1].children[i]
                        IN  /\ get_node(t, c) # None
                            /\ t.nodes[c + 1].depth = t.nodes[n + 1].depth + 1

\* build_tree has returned a tree four levels deep whose root has two
\* children
C16_Witness ==
    /\ JustBuilt
    /\ Len(tree[1].nodes[root_index(tree[1]) + 1].children) >= 2
    /\ \E n \in NodeIds(tree[1]) : tree[1].nodes[n + 1].depth >= 4

ToggledRoot ==
    /\ LastCall.op = "toggle_expanded"
    /\ LastCall.index = root_index(LastCall.before)
    /\ LastCall.index \in NodeIds(LastCall.before)
    /\ IsContainer(LastCall.before, LastCall.index)

(***************************************************************************)
(* C18: immediately after build_tree on a document whose root is a         *)
(* container, the expanded flag of the root is true; one toggle_expanded   *)
(* on the root then collapses it and a second one expands it again.        *)
(***************************************************************************)
C18_RootStartsExpanded ==
    /\ (JustBuilt /\ IsContainer(tree[1], root_index(tree[1]))) =>
            Expanded(tree[1], root_index(tree[1]))
    /\ (Len(last_msg) = 2 /\ PrevCall.op = "build_tree" /\ ToggledRoot) =>
            ~ Expanded(tree[1], root_index(tree[1]))
    /\ (ToggledTwice /\ ToggledRoot /\ Expanded(PrevCall.before, LastCall.index)) =>
            Expanded(tree[1], root_index(tree[1]))

\* node n is a member of an object
IsObjectMember(t, n) ==
    \E p \in NodeIds(t) : IsChildOf(t, n, p) /\ t.nodes[p + 1].value.kind = "Object"

(***************************************************************************)
(* C19: in every tree produced by build_tree, a node carries a key if and  *)
(* only if it is a member of an object: array items and the root have      *)
(* key = None.                                                             *)
(***************************************************************************)
C19_KeyIffObjectMember ==
    JustBuilt =>
        \A n \in NodeIds(tree[1]) :
            tree[1].nodes[n + 1].key # None <=> IsObjectMember(tree[1], n)

\* the query is not empty and, in regex mode, compiles
ValidArgs(args) ==
    /\ args[1] # <<>>
    /\ args[3] => RegexNew(IF args[2] THEN args[1] ELSE CaseFlag \o args[1]).ok

\* is node n a scalar whose text form matches under the search arguments
ScalarTextMatches(t, n, args) ==
    LET v    == t.nodes[n + 1].value
        re   == IF args[3]
                THEN Some(RegexNew(IF args[2] THEN args[1] ELSE CaseFlag \o args[1]))
                ELSE None
        text == CASE v.kind = "String" -> Some(v.s)
                  [] v.kind = "Number" -> Some(usize_to_string(v.n))
                  [] v.kind = "Bool"   -> Some(IF v.b THEN <<"t","r","u","e">>
                                                ELSE <<"f","a","l","s","e">>)
                  [] v.kind = "Null"   -> Some(<<"n","u","l","l">>)
                  [] OTHER             -> None
    IN  text # None /\ matches(re, args[1], args[2], text[1])

PatternOf(query, case_sensitive) ==
    IF case_sensitive THEN query ELSE CaseFlag \o query

\* the query is not empty and its pattern does not compile
BadRegex(query, case_sensitive) ==
    query # <<>> /\ ~ RegexNew(PatternOf(query, case_sensitive)).ok

(***************************************************************************)
(* C21: search_nodes called in regex mode with a pattern that does not     *)
(* compile returns the empty result list together with a non-empty error   *)
(* message, for every tree and both case settings, and a search that ends  *)
(* with that error leaves the tree as it was.                              *)
(***************************************************************************)
C21_BadRegexIsReported ==
    /\ [](tree # None =>
            \A q \in Queries, cs \in BOOLEAN :
                BadRegex(q, cs) =>
                    LET found == search_nodes(tree[1], q, cs, TRUE)
                    IN  /\ found.results = <<>>
                        /\ found.error # None
                        /\ found.error[1] # "")
    /\ [][(last_msg' \in SearchChangeMsgs /\ search_regex_error' # None) =>
            tree' = tree]_vars

\* a regex search with a pattern that does not compile has just run on a
\* loaded document
C21_Witness ==
    /\ FreshResults
    /\ search_use_regex
    /\ BadRegex(search_query, search_case_sensitive)
    /\ search_regex_error # None

\* the rows the view works on, once a document is loaded
total_rows == Len(flat_rows)

\* a document is loaded, so view computes the window
ViewHasWindow == tree # None

(***************************************************************************)
(* C22: for every number of rows, every scroll offset >= 0 and every       *)
(* viewport height >= 0 the window is start = max(0, first_visible -       *)
(* buffer_rows) and end = min(total_rows, first_visible + visible_count +  *)
(* buffer_rows), with first_visible = floor(scroll_offset / row_height)    *)
(* and visible_count = ceil(viewport_height / row_height) + 1; so          *)
(* 0 <= start and end <= total_rows.                                       *)
(***************************************************************************)
C22_WindowArithmetic ==
    ViewHasWindow =>
        LET fv    == first_visible(scroll_offset)
            vc    == visible_count(viewport_height)
            start == window_start(scroll_offset)
            end   == window_end(total_rows, scroll_offset, viewport_height)
        IN  /\ fv * ROW_HEIGHT <= scroll_offset
            /\ scroll_offset < (fv + 1) * ROW_HEIGHT
            /\ (vc - 1) * ROW_HEIGHT >= viewport_height
            /\ (vc - 2) * ROW_HEIGHT < viewport_height
            /\ start = Max(0, fv - BUFFER_ROWS)
            /\ end = Min(total_rows, fv + vc + BUFFER_ROWS)
            /\ 0 <= start
            /\ end <= total_rows

\* a window cut at both ends: the offset is inside a row more than
\* buffer_rows down, the height is not a whole number of rows, and rows
\* remain below the window
C22_Witness ==
    /\ ViewHasWindow
    /\ scroll_offset % ROW_HEIGHT # 0
    /\ viewport_height % ROW_HEIGHT # 0
    /\ window_start(scroll_offset) > 0
    /\ window_end(total_rows, scroll_offset, viewport_height) < total_rows

(***************************************************************************)
(* C23: for every number of rows, scroll offset and viewport height the    *)
(* window holds at most viewport_height / row_height + 2 * buffer_rows + 1 *)
(* rows: end - start is a count, and ROW_HEIGHT times it is at most        *)
(* viewport_height + (2 * buffer_rows + 1) * ROW_HEIGHT.                   *)
(***************************************************************************)
C23_WindowSizeBound ==
    ViewHasWindow =>
        \A len \in window_take(total_rows, scroll_offset, viewport_height) :
            /\ len.kind = "value"
            /\ len.v * ROW_HEIGHT
                   <= viewport_height + (((2 * BUFFER_ROWS) + 1) * ROW_HEIGHT)

\* the window starts past the last row: end - start overflows
C23_WindowUnderflows ==
    /\ ViewHasWindow
    /\ window_start(scroll_offset)
          > window_end(total_rows, scroll_offset, viewport_height)

\* the window is in range and still holds more rows than the bound allows
C23_WindowOverBound ==
    /\ ViewHasWindow
    /\ \E len \in window_take(total_rows, scroll_offset, viewport_height) :
            /\ len.kind = "value"
            /\ len.v * ROW_HEIGHT
                   > viewport_height + (((2 * BUFFER_ROWS) + 1) * ROW_HEIGHT)

(***************************************************************************)
(* C24: scroll_to_node for a target whose row is at position p asks for    *)
(* the offset max(0, p * row_height - viewport_height / 2), which is never *)
(* negative; for a target without a row it returns no scroll.  The reveal  *)
(* handlers return exactly that task for the node under the cursor.        *)
(***************************************************************************)
C24_ScrollTarget ==
    /\ [](tree # None =>
            \A n \in IndexInputs(tree[1]) :
                LET r == scroll_to_node(flat_rows, viewport_height, n)
                IN  IF HasRow(flat_rows, n)
                    THEN \E p \in 0..(Len(flat_rows) - 1) :
                            /\ flat_rows[p + 1].node_index = n
                            /\ r.kind = "scroll_to"
                            /\ 2 * r.y = Max(0, (2 * p * ROW_HEIGHT) - viewport_height)
                            /\ r.y >= 0
                    ELSE r = NoTask)
    /\ [][Revealed =>
            task' = scroll_to_node(flat_rows', viewport_height', CurrentResult')]_vars

\* a reveal has just asked for a scroll below the top of the content
C24_Witness ==
    /\ tree # None
    /\ last_msg \in RevealMsgs
    /\ search_result_index # None
    /\ HasRow(flat_rows, CurrentResult)
    /\ task.kind = "scroll_to"
    /\ task.y > 0

\* 0-based position of child c in the child list of p
ChildPosition(t, c, p) ==
    (CHOOSE i \in 1..Len(t.nodes[p + 1].children) :
        t.nodes[p + 1].children[i] = c) - 1

\* the row of node n in rows
RowOf(rows, n) == rows[CHOOSE k \in 1..Len(rows) : rows[k].node_index = n]

\* the path of the parent of a row's node: empty for the root, which has no
\* row, and the path of the parent's row otherwise
ParentPath(t, rows, n) ==
    IF ParentOf(t, n) = t.root_index THEN <<>>
    ELSE RowOf(rows, ParentOf(t, n)).path

\* the stored key of a node, empty when it has none
KeyText(t, n) == IF t.nodes[n + 1].key = None THEN <<>> ELSE t.nodes[n + 1].key[1]

(***************************************************************************)
(* C25: the path of a row is built from the path of its parent: an item of *)
(* an array gets parent_path + "[i]" with i its position, a member of an   *)
(* object gets parent_path + "." + key, and the bare key without a dot is  *)
(* used for the children of the root (depth 1) and only for them.          *)
(***************************************************************************)
C25_PathFromParent ==
    LET t    == tree[1]
        rows == flatten_visible_nodes(t)
    IN  \A k \in 1..Len(rows) :
            LET n  == rows[k].node_index
                p  == ParentOf(t, n)
                pp == ParentPath(t, rows, n)
            IN  IF t.nodes[p + 1].value.kind = "Array"
                THEN rows[k].path =
                        pp \o <<"[">> \o usize_to_string(ChildPosition(t, n, p)) \o <<"]">>
                ELSE IF t.nodes[n + 1].depth = 1
                THEN rows[k].path = KeyText(t, n)
                ELSE rows[k].path = pp \o <<".">> \o KeyText(t, n)

\* a member two levels down whose parent has the empty path
C25_BareKeyBelowRoot ==
    LET t    == tree[1]
        rows == flatten_visible_nodes(t)
    IN  \E k \in 1..Len(rows) :
            /\ t.nodes[rows[k].node_index + 1].depth = 2
            /\ rows[k].path = KeyText(t, rows[k].node_index)

(***************************************************************************)
(* Reading a path as an accessor: a bare key first or not, then ".key" and *)
(* "[i]" steps, followed from the root of the document.                    *)
(***************************************************************************)
KeyStep(name) == [kind |-> "key", name |-> name, index |-> 0]
IndexStep(i) == [kind |-> "index", name |-> <<>>, index |-> i]

DigitValue(c) == (CHOOSE d \in 1..10 : Digits[d] = c) - 1

IsDigit(c) == \E d \in 1..10 : Digits[d] = c

RECURSIVE DigitsValue(_)
\* the number a non-empty sequence of digits writes
DigitsValue(ds) ==
    IF Len(ds) = 1 THEN DigitValue(ds[1])
    ELSE (10 * DigitsValue(SubSeq(ds, 1, Len(ds) - 1))) + DigitValue(ds[Len(ds)])

\* the first position >= i of path holding "." or "[", or Len(path) + 1
KeyEnd(path, i) ==
    LET stops == {j \in i..Len(path) : path[j] \in {".", "["}}
    IN  IF stops = {} THEN Len(path) + 1
        ELSE CHOOSE j \in stops : \A m \in stops : j <= m

\* the first position >= i of path holding "]", or 0
BracketEnd(path, i) ==
    LET stops == {j \in i..Len(path) : path[j] = "]"}
    IN  IF stops = {} THEN 0
        ELSE CHOOSE j \in stops : \A m \in stops : j <= m

RECURSIVE AccessorSteps(_, _, _)
\* the steps of path from position i on, None when it is not an accessor
AccessorSteps(path, i, steps) ==
    IF i > Len(path) THEN Some(steps)
    ELSE IF path[i] = "["
    THEN LET e  == BracketEnd(path, i)
             ds == SubSeq(path, i + 1, e - 1)
         IN  IF e = 0 \/ ds = <<>> \/ \E j \in 1..Len(ds) : ~ IsDigit(ds[j])
             THEN None
             ELSE AccessorSteps(path, e + 1, Append(steps, IndexStep(DigitsValue(ds))))
    ELSE IF path[i] = "."
    THEN LET e == KeyEnd(path, i + 1)
         IN  AccessorSteps(path, e, Append(steps, KeyStep(SubSeq(path, i + 1, e - 1))))
    ELSE IF i = 1
    THEN LET e == KeyEnd(path, 1)
         IN  AccessorSteps(path, e, Append(steps, KeyStep(SubSeq(path, 1, e - 1))))
    ELSE None

\* the member of object node n named name, None when there is none
MemberNamed(t, n, name) ==
    LET hits == {i \in 1..Len(t.nodes[n + 1].children) :
                    KeyText(t, t.nodes[n + 1].children[i]) = name}
    IN  IF t.nodes[n + 1].value.kind # "Object" \/ hits = {} THEN None
        ELSE Some(t.nodes[n + 1].children[CHOOSE i \in hits : \A j \in hits : i <= j])

\* item i of array node n, None when there is none
ItemAt(t, n, i) ==
    IF t.nodes[n + 1].value.kind # "Array" \/ i >= Len(t.nodes[n + 1].children)
    THEN None
    ELSE Some(t.nodes[n + 1].children[i + 1])

RECURSIVE FollowSteps(_, _, _, _)
\* the node the steps from step i on lead to from node n
FollowSteps(t, n, steps, i) ==
    IF i > Len(steps) THEN Some(n)
    ELSE LET next == IF steps[i].kind = "key"
                     THEN MemberNamed(t, n, steps[i].name)
                     ELSE ItemAt(t, n, steps[i].index)
         IN  IF next = None THEN None
             ELSE FollowSteps(t, next[1], steps, i + 1)

\* the node the accessor path denotes in the document, None when none
Resolve(t, path) ==
    LET steps == AccessorSteps(path, 1, <<>>)
    IN  IF steps = None THEN None ELSE FollowSteps(t, t.root_index, steps[1], 1)

(***************************************************************************)
(* C26: for every leaf that has a row, reading the row's path as an        *)
(* accessor from the root of the document reaches exactly that leaf.       *)
(***************************************************************************)
C26_PathRoundTrip ==
    LET t    == tree[1]
        rows == flatten_visible_nodes(t)
    IN  \A k \in 1..Len(rows) :
            t.nodes[rows[k].node_index + 1].children = <<>> =>
                Resolve(t, rows[k].path) = Some(rows[k].node_index)

\* a leaf several levels down whose path leads back to it
C26_DeepLeafResolves ==
    LET t    == tree[1]
        rows == flatten_visible_nodes(t)
    IN  \E k \in 1..Len(rows) :
            /\ t.nodes[rows[k].node_index + 1].children = <<>>
            /\ t.nodes[rows[k].node_index + 1].depth >= 4
            /\ Resolve(t, rows[k].path) = Some(rows[k].node_index)

\* the document the tree has just been built from
BuiltFrom(json) == JustBuilt /\ tree[1] = build_tree(json)

(***************************************************************************)
(* C27: flattening a tree as build_tree returns it, before any toggle,     *)
(* yields exactly one row per child of the root, in child order, whose     *)
(* path is the key for an object root and "[i]" for an array root; a       *)
(* scalar root or an empty container root yields no row, and the root      *)
(* itself never has a row.                                                 *)
(***************************************************************************)
C27_FreshTreeRows ==
    JustBuilt =>
        LET t    == tree[1]
            root == t.nodes[t.root_index + 1]
            rows == flatten_visible_nodes(t)
        IN  /\ Len(rows) = Len(root.children)
            /\ \A i \in 1..Len(rows) :
                    /\ rows[i].node_index = root.children[i]
                    /\ rows[i].path =
                          IF root.value.kind = "Array"
                          THEN <<"[">> \o usize_to_string(i - 1) \o <<"]">>
                          ELSE KeyText(t, root.children[i])
            /\ (root.value.kind \notin {"Array", "Object"}) => rows = <<>>
            /\ ~ HasRow(rows, t.root_index)

\* a document with several root children, one of them a container with
\* children of its own, has just been built
C27_Witness ==
    /\ JustBuilt
    /\ LET t    == tree[1]
            root == t.nodes[t.root_index + 1]
        IN  /\ Len(root.children) >= 2
            /\ \E i \in 1..Len(root.children) :
                    t.nodes[root.children[i] + 1].children # <<>>
            /\ Len(flatten_visible_nodes(t)) = Len(root.children)

\* an empty container has just been built as a document
C27_EmptyRootBuilt ==
    /\ JustBuilt
    /\ tree[1].nodes[tree[1].root_index + 1].value.kind \in {"Array", "Object"}
    /\ tree[1].nodes[tree[1].root_index + 1].children = <<>>

RECURSIVE CountValues(_)
RECURSIVE CountItems(_, _)
\* the number of JSON values in items i.. of a container, nested ones included
CountItems(items, i) ==
    IF i > Len(items) THEN 0
    ELSE CountValues(items[i].v) + CountItems(items, i + 1)

\* the number of JSON values in a document: itself and every nested item
\* and member
CountValues(value) == 1 + CountItems(value.items, 1)

RECURSIVE ValueOfNode(_, _)
\* the JSON value a node and its child list stand for
ValueOfNode(t, n) ==
    LET node == t.nodes[n + 1]
    IN  [kind  |-> node.value.kind, s |-> node.value.s, n |-> node.value.n,
         b     |-> node.value.b,
         items |-> [i \in 1..Len(node.children) |->
                      [k |-> IF node.value.kind = "Object"
                             THEN KeyText(t, node.children[i]) ELSE <<>>,
                       v |-> ValueOfNode(t, node.children[i])]]]

(***************************************************************************)
(* C28: build_tree creates exactly one node per JSON value of the input:   *)
(* node_count is 1 plus the number of nested items and members, and the    *)
(* child list of every container has one entry per item or member, in the  *)
(* order of the input, each standing for that item or member.              *)
(***************************************************************************)
C28_OneNodePerValue ==
    \A json \in TreeDocs :
        BuiltFrom(json) =>
            /\ node_count(tree[1]) = CountValues(json)
            /\ ValueOfNode(tree[1], tree[1].root_index) = json
            /\ \A n \in NodeIds(tree[1]), m \in NodeIds(tree[1]) :
                    \A i \in 1..Len(tree[1].nodes[n + 1].children) :
                        \A j \in 1..Len(tree[1].nodes[m + 1].children) :
                            (tree[1].nodes[n + 1].children[i]
                                = tree[1].nodes[m + 1].children[j])
                                => (n = m /\ i = j)

\* a document with nested containers, seven values in all, has just been
\* built
C28_Witness ==
    \E json \in TreeDocs :
        /\ BuiltFrom(json)
        /\ CountValues(json) >= 7
        /\ node_count(tree[1]) = CountValues(json)

(***************************************************************************)
(* A reader of JSON texts: null, true, false, unsigned integers, strings   *)
(* with the escapes \" \\ \/ \n \r \t, arrays and objects, with white      *)
(* space between the tokens.  A string ends at the first quote that is not *)
(* escaped and holds no raw control character.                             *)
(***************************************************************************)
ParseFail == [ok |-> FALSE, v |-> VNull, next |-> 0]

Parsed(v, next) == [ok |-> TRUE, v |-> v, next |-> next]

IsWs(c) == c \in {" ", "\n", "\r", "\t"}

RECURSIVE SkipWs(_, _)
SkipWs(s, i) == IF i <= Len(s) /\ IsWs(s[i]) THEN SkipWs(s, i + 1) ELSE i

StartsWith(s, i, lit) ==
    (i + Len(lit)) - 1 <= Len(s) /\ SubSeq(s, i, (i + Len(lit)) - 1) = lit

RECURSIVE ParseString(_, _, _)
\* the characters of a string literal whose opening quote is before i
ParseString(s, i, acc) ==
    IF i > Len(s) THEN ParseFail
    ELSE IF s[i] = "\"" THEN Parsed(acc, i + 1)
    ELSE IF s[i] = "\\"
    THEN IF i + 1 > Len(s) THEN ParseFail
         ELSE IF s[i + 1] \in {"\"", "\\", "/"}
         THEN ParseString(s, i + 2, Append(acc, s[i + 1]))
         ELSE IF s[i + 1] = "n" THEN ParseString(s, i + 2, Append(acc, "\n"))
         ELSE IF s[i + 1] = "r" THEN ParseString(s, i + 2, Append(acc, "\r"))
         ELSE IF s[i + 1] = "t" THEN ParseString(s, i + 2, Append(acc, "\t"))
         ELSE ParseFail
    ELSE IF s[i] \in {"\n", "\r", "\t"} THEN ParseFail
    ELSE ParseString(s, i + 1, Append(acc, s[i]))

\* the first position >= i of s that holds no digit
DigitsEnd(s, i) ==
    LET stops == {j \in i..Len(s) : ~ IsDigit(s[j])}
    IN  IF stops = {} THEN Len(s) + 1
        ELSE CHOOSE j \in stops : \A m \in stops : j <= m

RECURSIVE ParseValue(_, _)
RECURSIVE ParseItems(_, _, _)
RECURSIVE ParseMembers(_, _, _)

\* the items of an array from the item at i on
ParseItems(s, i, acc) ==
    LET r == ParseValue(s, i)
        j == SkipWs(s, r.next)
    IN  IF ~ r.ok \/ j > Len(s) THEN ParseFail
        ELSE IF s[j] = "," THEN ParseItems(s, SkipWs(s, j + 1), Append(acc, r.v))
        ELSE IF s[j] = "]" THEN Parsed(VArray(Append(acc, r.v)), j + 1)
        ELSE ParseFail

\* the members of an object from the member at i on
ParseMembers(s, i, acc) ==
    IF i > Len(s) \/ s[i] # "\"" THEN ParseFail
    ELSE LET k == ParseString(s, i + 1, <<>>)
             c == SkipWs(s, k.next)
         IN  IF ~ k.ok \/ c > Len(s) \/ s[c] # ":" THEN ParseFail
             ELSE LET r == ParseValue(s, SkipWs(s, c + 1))
                      j == SkipWs(s, r.next)
                      m == Append(acc, Member(k.v, r.v))
                  IN  IF ~ r.ok \/ j > Len(s) THEN ParseFail
                      ELSE IF s[j] = "," THEN ParseMembers(s, SkipWs(s, j + 1), m)
                      ELSE IF s[j] = "}" THEN Parsed(VObject(m), j + 1)
                      ELSE ParseFail

\* the value that starts at i
ParseValue(s, i) ==
    IF i > Len(s) THEN ParseFail
    ELSE IF StartsWith(s, i, NullText) THEN Parsed(VNull, i + 4)
    ELSE IF StartsWith(s, i, bool_to_string(TRUE)) THEN Parsed(VBool(TRUE), i + 4)
    ELSE IF StartsWith(s, i, bool_to_string(FALSE)) THEN Parsed(VBool(FALSE), i + 5)
    ELSE IF IsDigit(s[i])
    THEN LET e == DigitsEnd(s, i)
         IN  IF s[i] = "0" /\ e > i + 1 THEN ParseFail
             ELSE Parsed(VNumber(DigitsValue(SubSeq(s, i, e - 1))), e)
    ELSE IF s[i] = "\""
    THEN LET r == ParseString(s, i + 1, <<>>)
         IN  IF r.ok THEN Parsed(VString(r.v), r.next) ELSE ParseFail
    ELSE IF s[i] = "["
    THEN LET j == SkipWs(s, i + 1)
         IN  IF j <= Len(s) /\ s[j] = "]" THEN Parsed(VArray(<<>>), j + 1)
             ELSE ParseItems(s, j, <<>>)
    ELSE IF s[i] = "{"
    THEN LET j == SkipWs(s, i + 1)
         IN  IF j <= Len(s) /\ s[j] = "}" THEN Parsed(VObject(<<>>), j + 1)
             ELSE ParseMembers(s, j, <<>>)
    ELSE ParseFail

\* the JSON value a whole text denotes, None when it is not a JSON text
ParseJson(s) ==
    LET r == ParseValue(s, SkipWs(s, 1))
    IN  IF r.ok /\ SkipWs(s, r.next) = Len(s) + 1 THEN Some(r.v) ELSE None

RECURSIVE Unspaced(_, _, _)
\* the text s from i on less the one space that follows a "," or a ":"
\* outside string literals
Unspaced(s, i, in_string) ==
    IF i > Len(s) THEN <<>>
    ELSE IF in_string /\ s[i] = "\\" /\ i < Len(s)
    THEN <<s[i], s[i + 1]>> \o Unspaced(s, i + 2, TRUE)
    ELSE IF s[i] = "\"" THEN <<s[i]>> \o Unspaced(s, i + 1, ~ in_string)
    ELSE IF ~ in_string /\ s[i] \in {",", ":"} /\ i < Len(s) /\ s[i + 1] = " "
    THEN <<s[i]>> \o Unspaced(s, i + 2, FALSE)
    ELSE <<s[i]>> \o Unspaced(s, i + 1, in_string)

RECURSIVE Respaced(_, _, _)
\* the text s from i on with one space put after every "," and ":" outside
\* string literals
Respaced(s, i, in_string) ==
    IF i > Len(s) THEN <<>>
    ELSE IF in_string /\ s[i] = "\\" /\ i < Len(s)
    THEN <<s[i], s[i + 1]>> \o Respaced(s, i + 2, TRUE)
    ELSE IF s[i] = "\"" THEN <<s[i]>> \o Respaced(s, i + 1, ~ in_string)
    ELSE IF ~ in_string /\ s[i] \in {",", ":"}
    THEN <<s[i], " ">> \o Respaced(s, i + 1, FALSE)
    ELSE <<s[i]>> \o Respaced(s, i + 1, in_string)

\* a serialization of a node of the tree has just been asked for
Exported ==
    /\ last_msg.op \in {"node_to_json_string", "node_to_json_string_minified"}
    /\ last_msg.index \in NodeIds(tree[1])

(***************************************************************************)
(* C29: the minified and the spaced serialization of a node denote the     *)
(* same JSON value: both parse, to values with the same keys and values in *)
(* the same order, the value the node stands for; and the two texts differ *)
(* only by the single space after each item separator and key separator.   *)
(***************************************************************************)
C29_MinifiedEqualsSpaced ==
    Exported =>
        LET min == node_to_json_string_minified(tree[1], last_msg.index)
            sp  == node_to_json_string(tree[1], last_msg.index)
        IN  /\ ParseJson(min) # None
            /\ ParseJson(sp) # None
            /\ ParseJson(min) = ParseJson(sp)
            /\ ParseJson(min) = Some(ValueOfNode(tree[1], last_msg.index))
            /\ Unspaced(sp, 1, FALSE) = min
            /\ Respaced(min, 1, FALSE) = sp

\* the object keys of the tree hold neither a quote nor a backslash
PlainKeys(t) ==
    \A n \in NodeIds(t) : \A j \in 1..Len(KeyText(t, n)) :
        KeyText(t, n)[j] \notin {"\"", "\\"}

\* the two serializations agree wherever the keys are plain
C29_HoldsForPlainKeys == PlainKeys(tree[1]) => C29_MinifiedEqualsSpaced

\* a container with separators inside its strings has been serialized and
\* both texts parse to the node's value
C29_PlainKeysWitness ==
    /\ Exported
    /\ \E n \in NodeIds(tree[1]) :
            /\ tree[1].nodes[n + 1].value.kind = "String"
            /\ \E j \in 1..Len(tree[1].nodes[n + 1].value.s) :
                    tree[1].nodes[n + 1].value.s[j] \in {",", ":", "\"", "\\"}
    /\ last_msg.index = tree[1].root_index
    /\ ParseJson(node_to_json_string_minified(tree[1], last_msg.index))
          = Some(ValueOfNode(tree[1], last_msg.index))
    /\ last_msg.text = node_to_json_string_minified(tree[1], last_msg.index)

\* the text of child c as an item of container n: the child's text for an
\* array, the quoted key, the key separator and the child's text for an object
ItemText(t, n, c, kv_sep, minified) ==
    IF t.nodes[n + 1].value.kind = "Array"
    THEN node_to_json_string_internal(t, c, minified)
    ELSE <<"\"">> \o KeyText(t, c) \o <<"\"">> \o kv_sep
         \o node_to_json_string_internal(t, c, minified)

RECURSIVE ItemsText(_, _, _, _, _, _)
\* the items of container n from child i on, each one after the first
\* preceded by sep
ItemsText(t, n, i, sep, kv_sep, minified) ==
    LET kids == t.nodes[n + 1].children
    IN  IF i > Len(kids) THEN <<>>
        ELSE (IF i > 1 THEN sep ELSE <<>>)
             \o ItemText(t, n, kids[i], kv_sep, minified)
             \o ItemsText(t, n, i + 1, sep, kv_sep, minified)

\* container n written with the given separators
ContainerText(t, n, sep, kv_sep, minified) ==
    (IF t.nodes[n + 1].value.kind = "Array" THEN <<"[">> ELSE <<"{">>)
    \o ItemsText(t, n, 1, sep, kv_sep, minified)
    \o (IF t.nodes[n + 1].value.kind = "Array" THEN <<"]">> ELSE <<"}">>)

(***************************************************************************)
(* C30: the minified serialization of a container joins its items with "," *)
(* and its keys with ":" and adds no white space, the spaced one uses ", " *)
(* and ": "; an empty object is exactly "{}" and an empty array exactly    *)
(* "[]" in both, and an empty container has no child row, expanded or not. *)
(***************************************************************************)
C30_SeparatorsAndEmpties ==
    LET t    == tree[1]
        rows == flatten_visible_nodes(t)
    IN  \A n \in NodeIds(t) :
            IsContainer(t, n) =>
                /\ node_to_json_string_minified(t, n)
                      = ContainerText(t, n, <<",">>, <<":">>, TRUE)
                /\ node_to_json_string(t, n)
                      = ContainerText(t, n, <<","," ">>, <<":"," ">>, FALSE)
                /\ t.nodes[n + 1].children = <<>> =>
                      /\ node_to_json_string_minified(t, n)
                            = IF t.nodes[n + 1].value.kind = "Array"
                              THEN <<"[","]">> ELSE <<"{","}">>
                      /\ node_to_json_string(t, n)
                            = node_to_json_string_minified(t, n)
                      /\ \A k \in 1..Len(rows) :
                            rows[k].node_index # t.root_index =>
                                ParentOf(t, rows[k].node_index) # n

\* an empty object that has a row is expanded, next to a container with
\* three levels of items
C30_Witness ==
    LET t == tree[1]
    IN  /\ \E n \in NodeIds(t) :
            /\ t.nodes[n + 1].value.kind = "Object"
            /\ t.nodes[n + 1].children = <<>>
            /\ Expanded(t, n)
            /\ HasRow(flatten_visible_nodes(t), n)
            /\ node_to_json_string_minified(t, n) = <<"{","}">>
        /\ \E m \in NodeIds(t) :
            /\ Len(t.nodes[m + 1].children) >= 3
            /\ Len(node_to_json_string(t, m)) > Len(node_to_json_string_minified(t, m))

\* the matches of a plain-text search on tree t
PlainResults(t, query, case_sensitive) ==
    to_set(search_nodes(t, query, case_sensitive, FALSE).results)

\* two queries that differ only in the case of their letters
DifferOnlyInCase(q1, q2) ==
    /\ Len(q1) = Len(q2)
    /\ \A i \in 1..Len(q1) :
            \/ q1[i] = q2[i]
            \/ LowerChar(q1[i]) = q2[i]
            \/ q1[i] = LowerChar(q2[i])

(***************************************************************************)
(* C31: in plain-text mode every node a case-sensitive search returns is   *)
(* also returned by the case-insensitive search for the same query on the  *)
(* same tree, and the case-insensitive search returns the same nodes for   *)
(* two queries that differ only in letter case.                            *)
(***************************************************************************)
C31_CaseInsensitiveFindsMore ==
    /\ \A q \in SearchQueries :
            PlainResults(tree[1], q, TRUE) \subseteq PlainResults(tree[1], q, FALSE)
    /\ \A q1 \in SearchQueries, q2 \in SearchQueries :
            DifferOnlyInCase(q1, q2) =>
                PlainResults(tree[1], q1, FALSE) = PlainResults(tree[1], q2, FALSE)

\* no text of the tree holds a capital sigma
NoCapitalSigma(t) ==
    \A n \in NodeIds(t) :
        /\ \A j \in 1..Len(t.nodes[n + 1].value.s) : t.nodes[n + 1].value.s[j] # "SIGMA"
        /\ t.nodes[n + 1].key # None =>
              \A j \in 1..Len(t.nodes[n + 1].key[1]) : t.nodes[n + 1].key[1][j] # "SIGMA"

\* the relation holds on every tree without a capital sigma
C31_HoldsWithoutSigma == NoCapitalSigma(tree[1]) => C31_CaseInsensitiveFindsMore

\* a case-sensitive search has found fewer nodes than the case-insensitive
\* one on a tree without a capital sigma
C31_WithoutSigmaWitness ==
    /\ NoCapitalSigma(tree[1])
    /\ \E q \in SearchQueries :
            /\ PlainResults(tree[1], q, TRUE) # {}
            /\ PlainResults(tree[1], q, TRUE) # PlainResults(tree[1], q, FALSE)

(***************************************************************************)
(* C32: search_nodes with the empty query returns the empty list and no    *)
(* error, whatever the options; and when SearchQueryChanged makes the      *)
(* query empty, the result list, the match set, the cursor and the regex   *)
(* error are cleared and the tree, every expanded flag included, stays as  *)
(* it was.                                                                 *)
(***************************************************************************)
C32_EmptyQueryClears ==
    /\ [](tree # None =>
            \A cs \in BOOLEAN, re \in BOOLEAN :
                search_nodes(tree[1], <<>>, cs, re) = [results |-> <<>>, error |-> None])
    /\ [][(last_msg' = "SearchQueryChanged" /\ search_query' = <<>>) =>
            /\ search_results' = <<>>
            /\ search_matches' = {}
            /\ search_result_index' = None
            /\ search_regex_error' = None
            /\ tree' = tree]_vars

\* the query has just been emptied while a node opened by an earlier search
\* is still open and the regex option is on
C32_Witness ==
    /\ tree # None
    /\ last_msg = "SearchQueryChanged"
    /\ search_query = <<>>
    /\ search_use_regex
    /\ search_results = <<>>
    /\ search_regex_error = None
    /\ \E n \in NodeIds(tree[1]) : Expanded(tree[1], n)

\* the arguments of a logged search call
ArgsOf(c) == <<c.query, c.case_sensitive, c.use_regex>>

\* the last two calls were searches with the same arguments
SearchedTwice ==
    /\ Len(last_msg) = 2
    /\ PrevCall.op = "search_nodes"
    /\ LastCall.op = "search_nodes"
    /\ ArgsOf(PrevCall) = ArgsOf(LastCall)

C33_ErrorTwice ==
    /\ SearchedTwice
    /\ LastCall.error # None
    /\ LastCall.error = PrevCall.error

(***************************************************************************)
(* C39: the list search_nodes returns is strictly increasing in node       *)
(* index, so no node appears twice, even when both its key and its value   *)
(* match the query.                                                        *)
(***************************************************************************)
C39_ResultsStrictlyIncreasing ==
    LastCall.op = "search_nodes" =>
        \A i \in 1..Len(LastCall.results), j \in 1..Len(LastCall.results) :
            i < j => LastCall.results[i] < LastCall.results[j]

\* a search has returned a node whose key and whose value both match
C39_Witness ==
    /\ LastCall.op = "search_nodes"
    /\ LastCall.query # <<>>
    /\ ~ LastCall.use_regex
    /\ LastCall.case_sensitive
    /\ \E k \in 1..Len(LastCall.results) :
            LET node == tree[1].nodes[LastCall.results[k] + 1]
            IN  /\ node.key # None
                /\ contains(node.key[1], LastCall.query)
                /\ node.value.kind = "String"
                /\ contains(node.value.s, LastCall.query)

(***************************************************************************)
(* C34: in every reachable state with a tree loaded the window view        *)
(* computes has start <= end, so the count end - start never underflows,   *)
(* also after the row list has shrunk while scroll_offset keeps its        *)
(* earlier, larger value.                                                  *)
(***************************************************************************)
C34_WindowInRange ==
    ViewHasWindow =>
        /\ window_start(scroll_offset)
              <= window_end(total_rows, scroll_offset, viewport_height)
        /\ \A len \in window_take(total_rows, scroll_offset, viewport_height) :
                len.kind = "value"

\* the rows were replaced by fewer rows than the stored offset scrolls past
C34_StaleOffset ==
    /\ ViewHasWindow
    /\ last_msg = "FileSelected"
    /\ scroll_offset > total_rows * ROW_HEIGHT

\* what search_nodes returns now for the stored query and options
CurrentFound ==
    search_nodes(tree[1], search_query, search_case_sensitive, search_use_regex)

(***************************************************************************)
(* C35: in every reachable state with a tree loaded, every index in the    *)
(* result list, the one under the cursor included, is a valid index of the *)
(* current tree and denotes a node that matches the current query and      *)
(* options, also after another document is loaded while a search is        *)
(* active.                                                                 *)
(***************************************************************************)
C35_ResultsAreCurrent ==
    tree # None =>
        /\ \A k \in 1..Len(search_results) :
                /\ search_results[k] \in NodeIds(tree[1])
                /\ search_results[k] \in to_set(CurrentFound.results)
        /\ search_result_index # None =>
                search_result_index[1] + 1 \in 1..Len(search_results)

\* a document has just been loaded while results of a search on the
\* document before it are stored
C35_LoadedDuringSearch ==
    /\ tree # None
    /\ last_msg = "FileSelected"
    /\ search_results # <<>>

\* right after a message that runs the search the stored results are those
\* of the current tree
C35_CurrentAfterSearch ==
    (tree # None /\ last_msg \in SearchChangeMsgs) =>
        \A k \in 1..Len(search_results) :
            /\ search_results[k] \in NodeIds(tree[1])
            /\ search_results[k] \in to_set(CurrentFound.results)

(***************************************************************************)
(* C36: the cursor is Some(i) exactly when the result list is non-empty,   *)
(* and then 0 <= i < len; the match lookup set holds exactly the elements  *)
(* of the result list.                                                     *)
(***************************************************************************)
C36_CursorAndMatchSet ==
    /\ (search_result_index # None) <=> (search_results # <<>>)
    /\ search_result_index # None =>
            /\ search_result_index[1] >= 0
            /\ search_result_index[1] < Len(search_results)
    /\ search_matches = to_set(search_results)

\* the cursor has been moved off the first of several results
C36_Witness ==
    /\ last_msg \in {"SearchNext", "SearchPrev"}
    /\ Len(search_results) > 1
    /\ search_result_index # None
    /\ search_result_index[1] > 0
    /\ search_matches = to_set(search_results)

\* a search has been cleared, a search that finds nothing included
C36_ClearedWitness ==
    /\ last_msg = "ClearSearch"
    /\ tree # None
    /\ search_results = <<>>
    /\ search_result_index = None

\* i is node or lies below it
InSubtree(t, node, i) == find_path(t, node, i, <<>>) # None

\* the messages that call set_expanded_recursive on the selected node
AllChildrenMsgs == {"ExpandAllChildren", "CollapseAllChildren"}

(***************************************************************************)
(* C37: set_expanded_recursive(node, v) leaves every container of the      *)
(* subtree rooted at node, node included, with expanded = v, and changes   *)
(* no flag outside that subtree; a leaf keeps its flag, and nothing but    *)
(* flags changes.                                                          *)
(***************************************************************************)
C37_SubtreeSet ==
    [][(last_msg' \in AllChildrenMsgs /\ tree # None /\ selected_node # None) =>
        LET v == (last_msg' = "ExpandAllChildren")
            t == tree[1]
            after == tree'[1]
        IN  /\ tree' # None
            /\ Len(after.nodes) = Len(t.nodes)
            /\ \A i \in NodeIds(t) :
                  /\ [after.nodes[i + 1] EXCEPT !.expanded = FALSE]
                        = [t.nodes[i + 1] EXCEPT !.expanded = FALSE]
                  /\ after.nodes[i + 1].expanded =
                        IF InSubtree(t, selected_node[1], i)
                           /\ is_expandable(t.nodes[i + 1])
                        THEN v
                        ELSE t.nodes[i + 1].expanded]_vars

\* a subtree with a container below its root has been collapsed while a
\* container outside it stays open
C37_Witness ==
    /\ last_msg = "CollapseAllChildren"
    /\ tree # None
    /\ selected_node # None
    /\ \E i \in NodeIds(tree[1]) :
          /\ i # selected_node[1]
          /\ InSubtree(tree[1], selected_node[1], i)
          /\ is_expandable(tree[1].nodes[i + 1])
          /\ ~ tree[1].nodes[i + 1].expanded
    /\ \E j \in NodeIds(tree[1]) :
          /\ ~ InSubtree(tree[1], selected_node[1], j)
          /\ tree[1].nodes[j + 1].expanded

\* a subtree with a container below its root has been opened
C37_ExpandedWitness ==
    /\ last_msg = "ExpandAllChildren"
    /\ tree # None
    /\ selected_node # None
    /\ \E i \in NodeIds(tree[1]) :
          /\ i # selected_node[1]
          /\ InSubtree(tree[1], selected_node[1], i)
          /\ is_expandable(tree[1].nodes[i + 1])
          /\ tree[1].nodes[i + 1].expanded

\* every flag that is set in t is set in after
KeepsOpenFlags(t, after) ==
    /\ Len(after.nodes) = Len(t.nodes)
    /\ \A i \in NodeIds(t) : t.nodes[i + 1].expanded => after.nodes[i + 1].expanded

(***************************************************************************)
(* C40: SearchQueryChanged, ToggleCaseSensitive, ToggleRegex, SearchNext   *)
(* and SearchPrev never change an expanded flag from true to false, and    *)
(* ClearSearch changes no flag at all.                                     *)
(***************************************************************************)
C40_SearchNeverCollapses ==
    [][/\ (last_msg' \in RevealMsgs /\ tree # None) =>
              (tree' # None /\ KeepsOpenFlags(tree[1], tree'[1]))
       /\ (last_msg' = "ClearSearch") => (tree' = tree)]_vars

\* a result has been revealed while a container that is no ancestor of it,
\* opened earlier, is still open
C40_Witness ==
    /\ last_msg \in RevealMsgs
    /\ tree # None
    /\ search_result_index # None
    /\ CurrentResult \in NodeIds(tree[1])
    /\ \E i \in NodeIds(tree[1]) :
          /\ i # tree[1].root_index
          /\ tree[1].nodes[i + 1].expanded
          /\ ~ InSubtree(tree[1], i, CurrentResult)

\* a search has been cleared while a container below the root is open
C40_ClearedWitness ==
    /\ last_msg = "ClearSearch"
    /\ tree # None
    /\ \E i \in NodeIds(tree[1]) :
          i # tree[1].root_index /\ tree[1].nodes[i + 1].expanded

(***************************************************************************)
(* C38: within one flattened row list no two different rows carry the same *)
(* path string.                                                            *)
(***************************************************************************)
C38_PathsDistinct ==
    LET rows == flatten_visible_nodes(tree[1])
    IN  \A i, j \in 1..Len(rows) : rows[i].path = rows[j].path => i = j

\* the member with the empty key is open, so its member "a" has a row next
\* to the row of the root's own member "a"
C38_EmptyKeyOpen ==
    LET t    == tree[1]
        rows == flatten_visible_nodes(t)
    IN  \E i, j \in 1..Len(rows) :
            /\ KeyText(t, rows[i].node_index) = <<>>
            /\ t.nodes[rows[i].node_index + 1].key # None
            /\ ParentOf(t, rows[j].node_index) = rows[i].node_index

\* every object key of the tree is non-empty and free of '.' and '['
AccessorKeys(t) ==
    \A n, p \in NodeIds(t) :
        (IsChildOf(t, n, p) /\ t.nodes[p + 1].value.kind = "Object") =>
            /\ KeyText(t, n) # <<>>
            /\ \A k \in 1..Len(KeyText(t, n)) : KeyText(t, n)[k] \notin {".", "["}

\* the paths of a row list are distinct wherever the keys are such
C38_HoldsForAccessorKeys == AccessorKeys(tree[1]) => C38_PathsDistinct

\* rows three levels deep of a tree with such keys
C38_AccessorKeysWitness ==
    LET t    == tree[1]
        rows == flatten_visible_nodes(t)
    IN  /\ AccessorKeys(t)
        /\ \E k \in 1..Len(rows) : t.nodes[rows[k].node_index + 1].depth >= 3

====
